---------------------------- MODULE Spec2Model ----------------------------
(***************************************************************************)
(* Model of the tree reconciler of src/src/sync.cpp (class Sync and the    *)
(* MegaClient helpers it calls) over the data types of mega/node.h         *)
(* (src/unnamed/part_000).                                                 *)
(*                                                                         *)
(* Pointers are modelled by identifiers: a LocalNode by its index in the   *)
(* node pool, a cloud Node by its handle, an FSNode by its position in the *)
(* vector that holds it.  0 is the null pointer for all three.             *)
(***************************************************************************)
EXTENDS Integers, Sequences, FiniteSets, TLC

(***************************************************************************)
(* Bounds of the model.                                                    *)
(***************************************************************************)
\* number of cloud children drawn for a computeSyncTriplets input
MaxCloudIn == 2
\* number of LocalNode children drawn for a computeSyncTriplets input
MaxLocalIn == 2
\* number of filesystem entries drawn for a computeSyncTriplets input
MaxFsIn == 2

(***************************************************************************)
(* Program constants.                                                      *)
(***************************************************************************)
\* mega::UNDEF, the "no fsid / no handle" value
UNDEF == 0

\* nodetype_t
FILENODE == "FILENODE"
FOLDERNODE == "FOLDERNODE"
TYPE_UNKNOWN == "TYPE_UNKNOWN"

\* enum TREESTATE
TREE_RESOLVED == 0
TREE_DESCENDANT_FLAGGED == 1
TREE_ACTION_HERE == 2
TREE_ACTION_SUBTREE == 3

(***************************************************************************)
(* Names.  A name is a short string; NameOrd gives the byte order of the   *)
(* strings and Fold the case folding a case-insensitive volume applies.    *)
(* Names need no escaping, so LocalPath::fromName / toName keep them.      *)
(***************************************************************************)
Names == {"A", "a", "b"}

NameOrd(n) == CASE n = "A" -> 65 [] n = "a" -> 97 [] n = "b" -> 98

Fold(n) == IF n = "A" THEN "a" ELSE n

Sign(i) == IF i < 0 THEN -1 ELSE IF i > 0 THEN 1 ELSE 0

\* LocalPath::compare / std::string operator<: case sensitive
compare(a, b) == Sign(NameOrd(a) - NameOrd(b))

\* LocalPath::fsCompare: sensitivity depends on the filesystem type
fsCompare(a, b, ci) == IF ci THEN compare(Fold(a), Fold(b)) ELSE compare(a, b)

\* the rank of a name in the order of fsCompare
FsRank(n, ci) == IF ci THEN NameOrd(Fold(n)) ELSE NameOrd(n)

(***************************************************************************)
(* Sequences.                                                              *)
(***************************************************************************)
Range(s) == {s[i] : i \in DOMAIN s}

\* std::sort of the set S into a vector: ascending in the integer key k[x].
\* The keys are distinct, so the comparison's equivalent elements are laid
\* out in the order the caller's key prefers.
RECURSIVE SortSet(_, _)
SortSet(S, k) ==
    IF S = {} THEN <<>>
    ELSE LET first == CHOOSE x \in S : \A y \in S \ {x} : k[x] < k[y]
         IN  <<first>> \o SortSet(S \ {first}, k)

\* std::upper_bound(cur, end, *cur) over a sorted vector, given the vector
\* k of the elements' ranks under the comparator (equivalent elements have
\* equal ranks): the end of the run of elements equivalent to the one at
\* cur; cur itself when cur is the end
UpperBound(k, cur) ==
    IF cur > Len(k) THEN cur
    ELSE LET later == {j \in (cur + 1)..Len(k) : k[cur] < k[j]}
         IN  IF later = {} THEN Len(k) + 1
             ELSE CHOOSE j \in later : \A i \in later : j <= i

Max(S) == CHOOSE x \in S : \A y \in S : y <= x

\* the std::vector whose i-th element is f[i]
Vector(f) == SubSeq(f, 1, Len(f))

\* the vector s laid out in ascending order of the integer keys k[i] of
\* its positions i
SortVector(s, k) ==
    LET order == SortSet(DOMAIN s, k)
    IN  Vector([i \in DOMAIN s |-> s[order[i]]])

(***************************************************************************)
(* Sync::computeSyncTriplets.                                              *)
(*                                                                         *)
(* cn maps a cloud handle to its Node, ln a LocalNode id to its LocalNode; *)
(* cloudKids and localKids are the children of the two parents and fsNodes *)
(* is the caller's vector, which the function sorts in place.  A row holds *)
(* the handle, the LocalNode id and the position in the sorted fsNodes.    *)
(***************************************************************************)
syncRow(c, s, f) ==
    [cloudNode |-> c, syncNode |-> s, fsNode |-> f,
     cloudClashingNames |-> <<>>, fsClashingNames |-> <<>>,
     suppressRecursion |-> FALSE]

\* First sweep: pair filesystem nodes with local nodes.  L is the sorted
\* vector of LocalNode ids.  ub records a read through a null localNode.
RECURSIVE PairFsLocal(_, _, _, _, _)
PairFsLocal(F, L, ln, fCurr, lCurr) ==
    LET fNext == UpperBound([i \in DOMAIN F |-> NameOrd(F[i].name)], fCurr)
        lNext == UpperBound([i \in DOMAIN L |-> NameOrd(ln[L[i]].name)], lCurr)
        fs0 == IF fCurr <= Len(F) THEN fCurr ELSE 0
        l0 == IF lCurr <= Len(L) THEN L[lCurr] ELSE 0
    IN  IF fs0 = 0 /\ l0 = 0
        THEN [rows |-> <<>>, assertOk |-> TRUE, ub |-> FALSE]
        ELSE
        LET relationship == IF fs0 # 0 /\ l0 # 0
                            THEN compare(F[fs0].name, ln[l0].name) ELSE 0
            fsNode == IF relationship > 0 THEN 0 ELSE fs0
            localNode == IF relationship < 0 THEN 0 ELSE l0
            clash == fsNode # 0 /\ fNext - fCurr > 1
            run == fCurr..(fNext - 1)
            hits == {i \in run : /\ F[i].fsid # UNDEF
                                 /\ localNode # 0
                                 /\ F[i].fsid = ln[localNode].fsid}
            row == IF clash
                   THEN [syncRow(0, localNode,
                                 IF hits = {} THEN 0 ELSE Max(hits))
                           EXCEPT !.fsClashingNames =
                                    Vector([i \in 1..(fNext - fCurr) |->
                                               fCurr + i - 1])]
                   ELSE syncRow(0, localNode, fsNode)
            rest == PairFsLocal(F, L, ln,
                                IF fsNode # 0 THEN fNext ELSE fCurr,
                                IF localNode # 0 THEN lNext ELSE lCurr)
        IN  [rows |-> <<row>> \o rest.rows,
             assertOk |-> rest.assertOk /\ lNext - lCurr < 2,
             ub |-> \/ rest.ub
                    \/ clash /\ localNode = 0 /\ \E i \in run : F[i].fsid # UNDEF]

\* Comparator::name(const syncRow&): the row's local name.  A row with
\* neither a syncNode nor an fsNode (assert(row.fsNode || row.syncNode)
\* fails) is named by its first clashing entry.
RowName(row, ln, F) ==
    IF row.syncNode # 0 THEN ln[row.syncNode].name
    ELSE IF row.fsNode # 0 THEN F[row.fsNode].name
    ELSE F[row.fsClashingNames[1]].name

\* Second sweep: link cloud nodes with triplets.  R is the sorted vector of
\* cloud handles, T the vector of triplets (new rows are appended to it),
\* tEnd its size when the sweep started.
RECURSIVE LinkCloud(_, _, _, _, _, _, _, _, _)
LinkCloud(R, cn, ln, F, T, tEnd, rCurr, tCurr, ci) ==
    LET rNext == UpperBound([i \in DOMAIN R |-> FsRank(cn[R[i]].name, ci)], rCurr)
        tNext == UpperBound([i \in 1..tEnd |-> FsRank(RowName(T[i], ln, F), ci)],
                            tCurr)
        remote0 == IF rCurr <= Len(R) THEN R[rCurr] ELSE 0
        trip0 == IF tCurr <= tEnd THEN tCurr ELSE 0
    IN  IF remote0 = 0 /\ trip0 = 0
        THEN [rows |-> T, assertOk |-> TRUE, ub |-> FALSE]
        ELSE
        LET relationship == IF remote0 # 0 /\ trip0 # 0
                            THEN fsCompare(cn[remote0].name,
                                           RowName(T[trip0], ln, F), ci)
                            ELSE 0
            remoteNode == IF relationship > 0 THEN 0 ELSE remote0
            triplet == IF relationship < 0 THEN 0 ELSE trip0
            clash == remoteNode # 0 /\ rNext - rCurr > 1
            run == rCurr..(rNext - 1)
            hits == {i \in run : /\ R[i] # UNDEF
                                 /\ triplet # 0
                                 /\ T[triplet].syncNode # 0
                                 /\ ln[T[triplet].syncNode].syncedCloudNodeHandle = R[i]}
            T2 == IF clash
                  THEN IF triplet # 0
                       THEN [T EXCEPT
                               ![triplet].cloudClashingNames =
                                   @ \o Vector([i \in 1..(rNext - rCurr) |->
                                                   R[rCurr + i - 1]]),
                               ![triplet].cloudNode =
                                   IF hits = {} THEN @ ELSE R[Max(hits)]]
                       ELSE T
                  ELSE IF triplet # 0
                       THEN [T EXCEPT ![triplet].cloudNode = remoteNode]
                       ELSE Append(T, syncRow(remoteNode, 0, 0))
            rest == LinkCloud(R, cn, ln, F, T2, tEnd,
                              IF remoteNode # 0 THEN rNext ELSE rCurr,
                              IF triplet # 0 THEN tNext ELSE tCurr, ci)
        IN  [rows |-> rest.rows,
             assertOk |-> rest.assertOk /\ tNext - tCurr < 2,
             ub |-> \/ rest.ub
                    \/ clash /\ triplet # 0 /\ T[triplet].syncNode = 0]

\* lines 1785-1798: the rows and the sorted fsNodes are returned
tripletsOut(F, p1, p2) ==
    [rows |-> p2.rows,
     fsNodes |-> F,
     assertOk |-> p1.assertOk /\ p2.assertOk,
     ub |-> p1.ub \/ p2.ub]

\* lines 1673-1783: the triplets and the cloud children are sorted by
\* filesystem name and swept.  flip is the order std::sort leaves two
\* equivalent triplets in.
sweepCloud(F, p1, cloudKids, cn, ln, ci, flip) ==
    tripletsOut(F, p1,
        LinkCloud(SortSet(cloudKids, [h \in cloudKids |->
                                         FsRank(cn[h].name, ci) * 16 + h]),
                  cn, ln, F,
                  SortVector(p1.rows,
                             [i \in DOMAIN p1.rows |->
                                 FsRank(RowName(p1.rows[i], ln, F), ci) * 16
                                 + (IF flip THEN Len(p1.rows) - i ELSE i)]),
                  Len(p1.rows), 1, 1, ci))

\* lines 1566-1671: the LocalNode children are sorted by name and swept
\* with the sorted fsNodes F
sweepLocal(F, cloudKids, cn, localKids, ln, ci, flip) ==
    sweepCloud(F,
               PairFsLocal(F,
                           SortSet(localKids, [x \in localKids |->
                                      NameOrd(ln[x].name) * 16 + x]),
                           ln, 1, 1),
               cloudKids, cn, ln, ci, flip)

\* Sync::computeSyncTriplets
computeSyncTriplets(cloudKids, cn, localKids, ln, fsNodes, ci, flip) ==
    sweepLocal(SortVector(fsNodes, [i \in DOMAIN fsNodes |->
                                       NameOrd(fsNodes[i].name) * 16 + i]),
               cloudKids, cn, localKids, ln, ci, flip)

(***************************************************************************)
(* The reconciler's data.                                                  *)
(*                                                                         *)
(* A FileFingerprint is [size, mtime, crc, isvalid].  An FSNode is         *)
(* [name, type, fsid, size, mtime, fingerprint, isSymlink, isBlocked].     *)
(* A LocalNode and a cloud Node are records of the fields below; a path is *)
(* the sequence of names below the sync root.  scanRequestedAt is history: *)
(* Waiter::ds when recursiveSync last asked for a scan of the directory,   *)
(* -1 before the first.                                                    *)
(***************************************************************************)
\* size of the LocalNode pool; node 1 is Sync::localroot
MaxNodes == 5
\* number of cloud handles; handle 1 is the sync's cloud root
MaxHandles == 4

NodeIds == 1..MaxNodes
Handles == 1..MaxHandles
LocalRoot == 1
CloudRoot == 1
\* the parent of a cloud node that has left the synced tree
Elsewhere == MaxHandles + 1

NoFingerprint == [size |-> 0, mtime |-> 0, crc |-> 0, isvalid |-> FALSE]

NoLocalNode ==
    [live |-> FALSE, parent |-> 0, name |-> "", type |-> TYPE_UNKNOWN,
     fsid |-> UNDEF, syncedCloudNodeHandle |-> UNDEF,
     fingerprint |-> NoFingerprint,
     scanAgain |-> TREE_RESOLVED, syncAgain |-> TREE_RESOLVED,
     conflicts |-> TREE_RESOLVED,
     useBlocked |-> TREE_RESOLVED, scanBlocked |-> TREE_RESOLVED,
     useBlockedTimer |-> "none", scanBlockedTimer |-> "none",
     assigned |-> FALSE, deleting |-> FALSE, transfer |-> FALSE,
     hasFolderScan |-> FALSE, lastFolderScan |-> <<>>, lastScanTime |-> 0,
     scanRequestedAt |-> -1,
     dbid |-> 0]

NoCloudNode ==
    [live |-> FALSE, parent |-> 0, name |-> "", type |-> TYPE_UNKNOWN,
     fingerprint |-> NoFingerprint, mPendingChanges |-> <<>>,
     syncget |-> FALSE, syncdeleted |-> FALSE]

\* LocalNode::children of node p
Children(ln, p) == {i \in DOMAIN ln : ln[i].live /\ ln[i].parent = p}

\* Node::children of the cloud node h; nothing for a null parent
CloudChildren(cn, h) ==
    IF h = 0 THEN {} ELSE {x \in DOMAIN cn : cn[x].live /\ cn[x].parent = h}

\* MegaClient::nodeByHandle
nodeByHandle(cn, h) == IF h \in DOMAIN cn /\ cn[h].live THEN h ELSE 0

\* LocalNode::getLocalPath: the names from the sync root down to node n
RECURSIVE getLocalPath(_, _)
getLocalPath(ln, n) ==
    IF n = LocalRoot \/ n = 0 THEN <<>>
    ELSE Append(getLocalPath(ln, ln[n].parent), ln[n].name)

\* the ancestors of node n, nearest first
RECURSIVE Ancestors(_, _)
Ancestors(ln, n) ==
    IF n = 0 \/ ln[n].parent = 0 THEN {}
    ELSE {ln[n].parent} \cup Ancestors(ln, ln[n].parent)

\* the subtree of node n, n included
RECURSIVE Subtree(_, _)
Subtree(ln, n) ==
    {n} \cup UNION {Subtree(ln, c) : c \in Children(ln, n)}

MaxFlag(a, b) == IF a > b THEN a ELSE b

\* updateTreestateFromChild
updateTreestateFromChild(oldFlag, childFlag) ==
    IF oldFlag = TREE_RESOLVED /\ childFlag # TREE_RESOLVED
    THEN TREE_DESCENDANT_FLAGGED ELSE oldFlag

\* a propagateSubtreeFlag that hands nothing down
propagateSubtreeFlagNot(nodeFlag, childFlag) == childFlag

\* propagateSubtreeFlag
propagateSubtreeFlag(nodeFlag, childFlag) ==
    IF nodeFlag = TREE_ACTION_SUBTREE THEN TREE_ACTION_SUBTREE ELSE childFlag

\* the tri-state a (doHere, doBelow) request stands for
FlagOf(doHere, doBelow) ==
    (IF doHere THEN 2 ELSE 0) + (IF doBelow THEN 1 ELSE 0)

\* LocalNode::setFutureScan: raise scanAgain here, mark every ancestor
setFutureScan(ln, n, doHere, doBelow) ==
    [i \in DOMAIN ln |->
        IF i = n
        THEN [ln[i] EXCEPT !.scanAgain = MaxFlag(@, FlagOf(doHere, doBelow))]
        ELSE IF i \in Ancestors(ln, n)
        THEN [ln[i] EXCEPT !.scanAgain = MaxFlag(@, TREE_DESCENDANT_FLAGGED)]
        ELSE ln[i]]

\* LocalNode::setFutureSync
setFutureSync(ln, n, doHere, doBelow) ==
    [i \in DOMAIN ln |->
        IF i = n
        THEN [ln[i] EXCEPT !.syncAgain = MaxFlag(@, FlagOf(doHere, doBelow))]
        ELSE IF i \in Ancestors(ln, n)
        THEN [ln[i] EXCEPT !.syncAgain = MaxFlag(@, TREE_DESCENDANT_FLAGGED)]
        ELSE ln[i]]

\* LocalNode::setUseBlocked: flag the node, arm its back-off timer, mark
\* every ancestor
setUseBlocked(ln, n) ==
    [i \in DOMAIN ln |->
        IF i = n
        THEN [ln[i] EXCEPT !.useBlocked = MaxFlag(@, TREE_ACTION_HERE),
                           !.useBlockedTimer = "counting"]
        ELSE IF i \in Ancestors(ln, n)
        THEN [ln[i] EXCEPT !.useBlocked = MaxFlag(@, TREE_DESCENDANT_FLAGGED)]
        ELSE ln[i]]

\* LocalNode::setScanBlocked
setScanBlocked(ln, n) ==
    [i \in DOMAIN ln |->
        IF i = n
        THEN [ln[i] EXCEPT !.scanBlocked = MaxFlag(@, TREE_ACTION_HERE),
                           !.scanBlockedTimer = "counting"]
        ELSE IF i \in Ancestors(ln, n)
        THEN [ln[i] EXCEPT !.scanBlocked = MaxFlag(@, TREE_DESCENDANT_FLAGGED)]
        ELSE ln[i]]

\* LocalNode::conflictDetected(): a name conflict here, every ancestor told
conflictDetected(ln, n) ==
    [i \in DOMAIN ln |->
        IF i = n THEN [ln[i] EXCEPT !.conflicts = TREE_ACTION_HERE]
        ELSE IF i \in Ancestors(ln, n)
        THEN [ln[i] EXCEPT !.conflicts =
                              updateTreestateFromChild(@, TREE_ACTION_HERE)]
        ELSE ln[i]]

\* LocalNode::scanRequired / syncRequired
scanRequired(l) == l.scanAgain # TREE_RESOLVED
syncRequired(l) == l.syncAgain # TREE_RESOLVED

\* LocalNode::getKnownFSDetails: the FSNode a LocalNode remembers
getKnownFSDetails(l) ==
    [name |-> l.name, type |-> l.type, fsid |-> l.fsid,
     size |-> l.fingerprint.size, mtime |-> l.fingerprint.mtime,
     fingerprint |-> l.fingerprint, isSymlink |-> FALSE, isBlocked |-> FALSE]

(***************************************************************************)
(* The world a pass of the reconciler reads and writes.  Every operator    *)
(* below takes the world w and returns the world it leaves:                *)
(*   ln, cn        the LocalNode pool and the cloud nodes by handle        *)
(*   fsidIndex     MegaClient::localnodeByFsid, in insertion order         *)
(*   handleIndex   MegaClient::localnodeByNodeHandle, in insertion order   *)
(*   fs            the filesystem below the sync root, by path             *)
(*   req           Sync::mScanRequest                                      *)
(*   flags         MegaClient::mSyncFlags                                  *)
(*   fic           MegaClient::mFileChangingCheckState                     *)
(*   insertq, deleteq, state     the Sync's cache queues and its state     *)
(*   now           Waiter::ds                                              *)
(*   acts, log, cur              what this pass did, row by row            *)
(*   visits                      the recursiveSync calls of this pass, in  *)
(*                               the order they returned                   *)
(*   ub, assertOk, overflow      undefined behaviour met, assertions held, *)
(*                               LocalNode pool exhausted                  *)
(***************************************************************************)
WNames == {"a", "b"}
Paths == {<<x>> : x \in WNames} \cup {<<"b", "a">>}

NoEntry ==
    [exists |-> FALSE, type |-> TYPE_UNKNOWN, fsid |-> UNDEF,
     fingerprint |-> NoFingerprint, isSymlink |-> FALSE, isBlocked |-> FALSE]

\* no ScanRequest; `queued` tells that the request is in the worker's
\* mPending
NoRequest ==
    [active |-> FALSE, target |-> 0, path |-> <<>>, known |-> {},
     queued |-> FALSE, completed |-> FALSE, results |-> <<>>]

\* FileChangingState as it is default-constructed
NoFic == [updatedfileinitialts |-> 0, updatedfilets |-> 0,
          updatedfilesize |-> -1]

FsAt(fs, p) == IF p \in DOMAIN fs THEN fs[p] ELSE NoEntry

IsPrefix(p, q) == Len(p) <= Len(q) /\ SubSeq(q, 1, Len(p)) = p

\* FileAccess::fopen of a path: a file that is there and can be read
fopen(fs, p) ==
    FsAt(fs, p).exists /\ FsAt(fs, p).type = FILENODE /\ ~FsAt(fs, p).isBlocked

\* the seconds m_time() returns when Waiter::ds is zero
EpochSecs == 1002

\* m_time()
m_time(w) == EpochSecs + (w.now \div 10)

\* one entry of the pass's effect log
Act(w, op, a, b) ==
    [w EXCEPT !.acts = Append(@, [op |-> op, a |-> a, b |-> b, row |-> w.cur,
                                  smc |-> w.flags.scansAndMovesComplete])]

\* one entry of the pass's trail: the step `ev` of the visit of directory
\* `dir`; row is the row's place in the row log, the folder descended
\* into, or the number of rows
Trail(w, ev, dir, row) ==
    [w EXCEPT !.trail = Append(@, [ev |-> ev, dir |-> dir, row |-> row])]

Remove(s, x) == SelectSeq(s, LAMBDA y : y # x)

\* MegaClient::localnodeByFsid.equal_range(f)
localnodeByFsid(w, f) == SelectSeq(w.fsidIndex, LAMBDA i : w.ln[i].fsid = f)

\* MegaClient::localnodeByNodeHandle.equal_range(h)
localnodeByNodeHandle(w, h) ==
    SelectSeq(w.handleIndex, LAMBDA i : w.ln[i].syncedCloudNodeHandle = h)

\* LocalNode::setfsid: the node leaves its old index entry and enters fsid's
setfsid(w, n, fsid) ==
    IF n = 0 THEN w
    ELSE [w EXCEPT !.ln[n].fsid = fsid,
                   !.fsidIndex = IF fsid = UNDEF THEN Remove(@, n)
                                 ELSE Append(Remove(@, n), n)]

\* LocalNode::setSyncedNodeHandle
setSyncedNodeHandle(w, n, h) ==
    IF n = 0 THEN w
    ELSE [w EXCEPT !.ln[n].syncedCloudNodeHandle = h,
                   !.handleIndex = IF h = UNDEF THEN Remove(@, n)
                                   ELSE Append(Remove(@, n), n)]

\* a statecacheadd that leaves deleteq as it is
statecacheaddKeeps(w, l) ==
    IF w.state = "SYNC_CANCELED" \/ l = 0 THEN w
    ELSE [w EXCEPT !.insertq = @ \cup {l}]

\* Sync::statecacheadd; deleteq holds dbids, and 0 is no dbid
statecacheadd(w, l) ==
    IF w.state = "SYNC_CANCELED" \/ l = 0 THEN w
    ELSE [w EXCEPT !.deleteq = @ \ {w.ln[l].dbid},
                   !.insertq = @ \cup {l}]

\* Sync::statecachedel
statecachedel(w, l) ==
    IF w.state = "SYNC_CANCELED" THEN w
    ELSE [w EXCEPT !.insertq = @ \ {l},
                   !.deleteq = IF w.ln[l].dbid # 0
                               THEN @ \cup {w.ln[l].dbid} ELSE @]

\* the state cache table before the sync has opened one (line 563)
NoTable == [present |-> FALSE, rows |-> <<>>, nextid |-> 0]

\* LocalNode::serialize: the row of node l; the parent's dbid is 0 for a
\* child of the root
serialize(ln, l) ==
    [parent_dbid |-> ln[ln[l].parent].dbid, name |-> ln[l].name,
     type |-> ln[l].type, fsid |-> ln[l].fsid,
     syncedCloudNodeHandle |-> ln[l].syncedCloudNodeHandle,
     fingerprint |-> ln[l].fingerprint, slocalname_in_db |-> TRUE]

\* DbTable::del
del(t, id) == [t EXCEPT !.rows = [i \in DOMAIN @ \ {id} |-> @[i]]]

\* DbTable::put of a record: a record without a dbid gets the next one
put(w, l) ==
    LET fresh == w.ln[l].dbid = 0
        id == IF fresh THEN w.table.nextid + 1 ELSE w.ln[l].dbid
        p == w.ln[l].parent
    IN  [w EXCEPT
           !.ln[l].dbid = id,
           !.table = [@ EXCEPT
                        !.nextid = IF fresh THEN id ELSE @,
                        !.rows = [i \in DOMAIN @ \cup {id} |->
                                     IF i = id
                                     THEN serialize(w.ln, l) ELSE @[i]]],
           !.dblog = Append(@, [op |-> "put", dbid |-> id,
                                parentIsRoot |-> p = LocalRoot,
                                parent_dbid |-> w.ln[p].dbid,
                                parentStored |->
                                    \/ p = LocalRoot
                                    \/ w.ln[p].dbid \in DOMAIN w.table.rows])]

\* lines 861-866: the queued deletions, in the order of the set
RECURSIVE cachenodesDeletions(_, _)
cachenodesDeletions(w, S) ==
    IF S = {} THEN [w EXCEPT !.deleteq = {}]
    ELSE LET id == CHOOSE x \in S : \A y \in S : x <= y
         IN  cachenodesDeletions(
                 [w EXCEPT !.table = del(@, id),
                           !.dblog = Append(@, [op |-> "del", dbid |-> id,
                                                parentIsRoot |-> FALSE,
                                                parent_dbid |-> 0,
                                                parentStored |-> TRUE])],
                 S \ {id})

\* line 881 without its test: a node is written wherever its parent is
parentCachedOrNot(w, l) == TRUE

\* line 881: the node's parent has a dbid or is the sync root
parentCached(w, l) ==
    \/ w.ln[w.ln[l].parent].dbid # 0
    \/ w.ln[l].parent = LocalRoot

\* lines 875-888: one run of the for loop over insertq; S is what the
\* iterator has still to see.  The set is ordered by address, for which the
\* node's number stands.  A node that was destroyed while the sync was
\* canceled is still queued, and reading it is a use after free.
RECURSIVE cachenodesLoop(_, _, _)
cachenodesLoop(w, S, added) ==
    IF S = {} THEN [w |-> w, added |-> added]
    ELSE LET l == CHOOSE x \in S : \A y \in S : x <= y
             rest == S \ {l}
         IN  IF ~w.ln[l].live
             THEN cachenodesLoop([w EXCEPT !.ub = TRUE, !.insertq = @ \ {l}],
                                 rest, added)
             ELSE IF w.ln[l].type = TYPE_UNKNOWN
             THEN cachenodesLoop([w EXCEPT !.insertq = @ \ {l}], rest, added)
             ELSE IF l = LocalRoot
             THEN cachenodesLoop([w EXCEPT !.ub = TRUE], rest, added)
             ELSE IF parentCached(w, l)
             THEN cachenodesLoop([put(w, l) EXCEPT !.insertq = @ \ {l}],
                                 rest, TRUE)
             ELSE cachenodesLoop(w, rest, added)

\* lines 871-889 with the loop run once
cachenodesSweepOnce(w) == cachenodesLoop(w, w.insertq, FALSE).w

\* lines 871-889: the do-while loop, run until a sweep adds nothing
RECURSIVE cachenodesSweep(_)
cachenodesSweep(w) ==
    LET r == cachenodesLoop(w, w.insertq, FALSE)
    IN  IF r.added THEN cachenodesSweep(r.w) ELSE r.w

\* the table that holds a row for every node of ln that has a dbid; the
\* last dbid it gave is the greatest of them
TableOf(ln) ==
    LET stored == {l \in DOMAIN ln : ln[l].live /\ ln[l].dbid # 0}
        ids == {ln[l].dbid : l \in stored}
    IN  [present |-> TRUE,
         rows |-> [d \in ids |->
                      serialize(ln, CHOOSE l \in stored : ln[l].dbid = d)],
         nextid |-> IF ids = {} THEN 0
                    ELSE CHOOSE x \in ids : \A y \in ids : y <= x]

\* the test of line 856
cachenodesRuns(w) ==
    /\ w.table.present
    /\ w.state \in {"SYNC_ACTIVE", "SYNC_INITIALSCAN"}
    /\ (w.deleteq # {} \/ w.insertq # {})

\* Sync::cachenodes: the deletions, then the additions whose parent has a
\* dbid, swept until none is added
cachenodes(w) ==
    IF cachenodesRuns(w)
    THEN cachenodesSweep(cachenodesDeletions(w, w.deleteq))
    ELSE w

\* LocalNode::~LocalNode of node n and, through its children, of the whole
\* subtree: each node leaves both indices and queues its cache row's removal
RECURSIVE deleteNodes(_, _)
deleteNodes(w, S) ==
    IF S = {} THEN w
    ELSE LET n == CHOOSE x \in S : TRUE
             w1 == statecachedel(w, n)
         IN  deleteNodes([w1 EXCEPT !.ln[n] = NoLocalNode,
                                    !.fsidIndex = Remove(@, n),
                                    !.handleIndex = Remove(@, n)],
                         S \ {n})

deleteLocalNode(w, n) ==
    IF n = 0 THEN w
    ELSE deleteNodes(Act(w, "delete", n, getLocalPath(w.ln, n)),
                     Subtree(w.ln, n))

\* new LocalNode followed by LocalNode::init: the node is attached to its
\* parent under the last name of fullPath, with no flags set
newLocalNode(w) ==
    IF \E i \in DOMAIN w.ln : ~w.ln[i].live
    THEN CHOOSE i \in DOMAIN w.ln :
             ~w.ln[i].live /\ \A j \in DOMAIN w.ln : ~w.ln[j].live => i <= j
    ELSE 0

init(w, l, type, parent, fullPath, fingerprint) ==
    [w EXCEPT !.ln[l] = [NoLocalNode EXCEPT
                            !.live = TRUE, !.parent = parent,
                            !.name = fullPath[Len(fullPath)],
                            !.type = type, !.fingerprint = fingerprint]]

\* LocalNode::init(const FSNode&), which completes a node of unknown type
initFromFSNode(w, l, fsNode) ==
    LET w1 == [w EXCEPT !.ln[l].type = fsNode.type,
                        !.ln[l].fingerprint = fsNode.fingerprint]
    IN  setfsid(w1, l, fsNode.fsid)

(***************************************************************************)
(* The cloud client.  A command is queued on its node and takes effect     *)
(* when its action packet arrives.                                         *)
(***************************************************************************)
\* MegaClient::setattr(node, {'n': name})
setattr(w, h, name) ==
    Act([w EXCEPT !.cn[h].mPendingChanges =
                     Append(@, [cmd |-> "setattr", name |-> name, to |-> 0])],
        "setattr", h, name)

\* MegaClient::rename(node, newParent, ..., newName); "" is no new name
rename(w, h, to, name) ==
    Act([w EXCEPT !.cn[h].mPendingChanges =
                     Append(@, [cmd |-> "rename", name |-> name, to |-> to])],
        "rename", h, <<to, name>>)

\* MegaClient::movetosyncdebris followed by execsyncdeletions
movetosyncdebris(w, h) ==
    Act([w EXCEPT !.cn[h].syncdeleted = TRUE], "movetosyncdebris", h, 0)

(***************************************************************************)
(* The filesystem.                                                         *)
(***************************************************************************)
\* the entries of directory `dir`, as names
Listing(fs, dir) ==
    IF dir # <<>> /\ ~(FsAt(fs, dir).exists /\ FsAt(fs, dir).type = FOLDERNODE
                        /\ ~FsAt(fs, dir).isBlocked)
    THEN {}
    ELSE {x \in WNames : FsAt(fs, Append(dir, x)).exists}

\* the filesystem after the subtree at `from` is moved to `to`
MoveTree(fs, from, to) ==
    [q \in DOMAIN fs |->
        IF IsPrefix(to, q)
        THEN FsAt(fs, from \o SubSeq(q, Len(to) + 1, Len(q)))
        ELSE IF IsPrefix(from, q) THEN NoEntry ELSE fs[q]]

\* the filesystem after the subtree at p is taken away
RemoveTree(fs, p) ==
    [q \in DOMAIN fs |-> IF IsPrefix(p, q) THEN NoEntry ELSE fs[q]]

\* FileSystemAccess::renamelocal: TRUE when something is at `from` and the
\* directory that is to hold `to` is there
canRename(fs, from, to) ==
    /\ FsAt(fs, from).exists
    /\ to \in DOMAIN fs
    /\ ~IsPrefix(from, to)
    /\ \/ Len(to) = 1
       \/ (FsAt(fs, SubSeq(to, 1, Len(to) - 1)).exists
           /\ FsAt(fs, SubSeq(to, 1, Len(to) - 1)).type = FOLDERNODE)

\* Sync::movetolocaldebris: the item leaves the synced tree for the dated
\* debris folder, unless the rename fails
movetolocaldebris(w, localpath, fsFail) ==
    IF ~fsFail /\ FsAt(w.fs, localpath).exists
    THEN [w |-> Act([w EXCEPT !.fs = RemoveTree(@, localpath)],
                    "movetolocaldebris", localpath, 0),
          ret |-> TRUE]
    ELSE [w |-> w, ret |-> FALSE]

(***************************************************************************)
(* Lookups and comparisons of the reconciler.                              *)
(***************************************************************************)
NoFSNode ==
    [name |-> "", type |-> TYPE_UNKNOWN, fsid |-> UNDEF, size |-> 0,
     mtime |-> 0, fingerprint |-> NoFingerprint, isSymlink |-> FALSE,
     isBlocked |-> FALSE]

FILE_UPDATE_DELAY_DS == 30
FILE_UPDATE_MAX_DELAY_SECS == 60

\* what `return NULL` gives a caller that reads a bool
NullAsBool == FALSE

\* Sync::syncEqual(const Node&, const LocalNode&)
syncEqualCloud(n, l) ==
    IF n.type # l.type THEN FALSE
    ELSE IF n.type # FILENODE THEN TRUE
    ELSE n.fingerprint = l.fingerprint

\* Sync::syncEqual(const FSNode&, const LocalNode&)
syncEqual(fsn, l) ==
    IF fsn.type # l.type THEN FALSE
    ELSE IF fsn.type # FILENODE THEN TRUE
    ELSE fsn.fingerprint = l.fingerprint

\* lines 2072-2100: the blocked flags of a LocalNode and their timers, as
\* syncItem finds them
blockedFlags(l) ==
    [useBlocked |-> l.useBlocked, useBlockedTimer |-> l.useBlockedTimer,
     scanBlocked |-> l.scanBlocked, scanBlockedTimer |-> l.scanBlockedTimer]

\* no fsid met again
NoReuse == [fsid |-> UNDEF, nodes |-> {}]

\* lines 1146-1149, "a false fsid match due to e.g. a file deletion/creation
\* cycle that reuses the same inode": the row's fsNode is a file, and the
\* file LocalNodes other than the row's that are indexed under its fsid
\* with another mtime or size
falseFsidMatch(w, row, F) ==
    IF row.fsNode = 0 THEN NoReuse
    ELSE LET fsNode == F[row.fsNode]
         IN  IF fsNode.type # FILENODE \/ fsNode.fsid = UNDEF THEN NoReuse
             ELSE [fsid |-> fsNode.fsid,
                   nodes |-> {n \in Range(localnodeByFsid(w, fsNode.fsid))
                                       \ {row.syncNode} :
                                /\ w.ln[n].type = FILENODE
                                /\ \/ w.ln[n].fingerprint.mtime # fsNode.mtime
                                   \/ w.ln[n].fingerprint.size # fsNode.size}]

\* findLocalNodeByFsid with the test of mtime and size inverted: a file
\* is found only when its mtime or size differs
findLocalNodeByFsidChanged(w, fsNode) ==
    IF fsNode.fsid = UNDEF THEN 0
    ELSE LET range == localnodeByFsid(w, fsNode.fsid)
             good == SelectSeq(range, LAMBDA i :
                        /\ w.ln[i].type = fsNode.type
                        /\ ~(/\ fsNode.type = FILENODE
                             /\ fsNode.mtime = w.ln[i].fingerprint.mtime
                             /\ fsNode.size = w.ln[i].fingerprint.size))
         IN  IF good = <<>> THEN 0 ELSE good[1]

\* MegaClient::findLocalNodeByFsid: the first node indexed under the fsid
\* whose type and, for a file, mtime and size are the fsNode's
findLocalNodeByFsid(w, fsNode) ==
    IF fsNode.fsid = UNDEF THEN 0
    ELSE LET range == localnodeByFsid(w, fsNode.fsid)
             good == SelectSeq(range, LAMBDA i :
                        /\ w.ln[i].type = fsNode.type
                        /\ ~(/\ fsNode.type = FILENODE
                             /\ \/ fsNode.mtime # w.ln[i].fingerprint.mtime
                                \/ fsNode.size # w.ln[i].fingerprint.size))
         IN  IF good = <<>> THEN 0 ELSE good[1]

\* MegaClient::findLocalNodeByNodeHandle: the first node indexed under the
\* handle whose path is a file that opens, or a folder
findLocalNodeByNodeHandle(w, h) ==
    IF h = UNDEF THEN 0
    ELSE LET range == localnodeByNodeHandle(w, h)
             good == SelectSeq(range, LAMBDA i :
                        LET lp == getLocalPath(w.ln, i)
                        IN  \/ fopen(w.fs, lp)
                            \/ (FsAt(w.fs, lp).exists
                                /\ FsAt(w.fs, lp).type = FOLDERNODE))
         IN  IF good = <<>> THEN 0 ELSE good[1]

\* MegaClient::checkIfFileIsChanging
checkIfFileIsChanging(w, fsNode, fullPath) ==
    LET currentsecs == m_time(w)
        s0 == IF fullPath \in DOMAIN w.fic THEN w.fic[fullPath] ELSE NoFic
        st == IF s0.updatedfileinitialts = 0
              THEN [s0 EXCEPT !.updatedfileinitialts = currentsecs] ELSE s0
        started == currentsecs >= st.updatedfileinitialts
        inTime == currentsecs - st.updatedfileinitialts
                      <= FILE_UPDATE_MAX_DELAY_SECS
        fa == FsAt(w.fs, fullPath)
        exists == fopen(w.fs, fullPath)
        checked == currentsecs >= st.updatedfilets
        tooRecent == /\ checked
                     /\ currentsecs - st.updatedfilets
                            < FILE_UPDATE_DELAY_DS \div 10
        sizeChanged == /\ checked /\ ~tooRecent
                       /\ st.updatedfilesize # fa.fingerprint.size
        st1 == IF exists /\ sizeChanged
               THEN [st EXCEPT !.updatedfilesize = fa.fingerprint.size,
                               !.updatedfilets = currentsecs]
               ELSE st
        waitSize == tooRecent \/ sizeChanged
        waitMtime == /\ ~waitSize
                     /\ currentsecs >= fa.fingerprint.mtime
                     /\ currentsecs - fa.fingerprint.mtime
                            < FILE_UPDATE_DELAY_DS \div 10
        waitforupdate == /\ started /\ inTime
                         /\ IF exists THEN waitSize \/ waitMtime
                            ELSE fa.exists /\ fa.isBlocked
    IN  IF waitforupdate
        THEN [w |-> [w EXCEPT !.fic[fullPath] = st1], ret |-> NullAsBool]
        ELSE [w |-> [w EXCEPT !.fic[fullPath] = NoFic], ret |-> waitforupdate]

(***************************************************************************)
(* The move and rename checks.  Each returns the world, the row, the       *)
(* directory's fsNodes, whether it took the row over (handled) and the     *)
(* row's result when it did.  orc is what the outside decides during the   *)
(* pass: fsFail, a local write meets a transient error; eaccess, the cloud *)
(* refuses a move.                                                         *)
(***************************************************************************)
Out(w, row, F, handled, ret) ==
    [w |-> w, row |-> row, F |-> F, handled |-> handled, ret |-> ret]

\* row.syncNode->setUseBlocked(); a null syncNode is dereferenced
blockRow(w, row) ==
    [w EXCEPT !.ln = setUseBlocked(@, row.syncNode),
              !.ub = @ \/ row.syncNode = 0]

moved(w) == [w EXCEPT !.flags.actionedMovesRenames = TRUE]

\* lines 1192-1242: the node in the way goes to the cloud debris, then the
\* source node is renamed in place or moved
localMoveIssue(w, row, F, orc, sourceCloudNode, targetCloudNode, newName) ==
    IF w.cn[sourceCloudNode].parent = targetCloudNode
    THEN Out(moved(setattr(w, sourceCloudNode, newName)), row, F, TRUE, FALSE)
    ELSE IF orc.eaccess THEN Out(w, row, F, FALSE, FALSE)
    ELSE Out(moved(rename(w, sourceCloudNode, targetCloudNode, newName)),
             row, F, TRUE, FALSE)

\* lines 1160-1190: the move is already on its way, or cannot be made, or
\* is made
localMoveTo(w, row, F, orc, sourceCloudNode, targetCloudNode) ==
    LET fsNode == F[row.fsNode]
        newName == IF fsNode.name = w.cn[sourceCloudNode].name
                   THEN "" ELSE fsNode.name
        sameParent == w.cn[sourceCloudNode].parent = targetCloudNode
    IN  IF /\ sourceCloudNode # 0
           /\ w.cn[sourceCloudNode].mPendingChanges # <<>>
        THEN Out(moved(w), row, F, TRUE, FALSE)
        ELSE IF sourceCloudNode = 0 \/ targetCloudNode = 0
        THEN Out(w, row, F, FALSE, FALSE)
        ELSE IF sameParent /\ newName = "" THEN Out(w, row, F, FALSE, FALSE)
        ELSE localMoveIssue(
                 IF row.cloudNode # 0 /\ row.cloudNode # sourceCloudNode
                 THEN movetosyncdebris(w, row.cloudNode) ELSE w,
                 row, F, orc, sourceCloudNode, targetCloudNode, newName)

\* lines 1131-1158: chk is what checkIfFileIsChanging said of the source
localMoveStable(chk, row, F, parentRow, orc, src) ==
    LET fsNode == F[row.fsNode]
    IN  IF chk.ret THEN Out(chk.w, row, F, TRUE, FALSE)
        ELSE IF /\ chk.w.ln[src].type = FILENODE
                /\ \/ chk.w.ln[src].fingerprint.mtime # fsNode.mtime
                   \/ chk.w.ln[src].fingerprint.size # fsNode.size
        THEN Out(chk.w, row, [F EXCEPT ![row.fsNode].fsid = UNDEF],
                 FALSE, FALSE)
        ELSE localMoveTo(
                 chk.w, row, F, orc,
                 nodeByHandle(chk.w.cn, chk.w.ln[src].syncedCloudNodeHandle),
                 nodeByHandle(chk.w.cn,
                              chk.w.ln[parentRow.syncNode].syncedCloudNodeHandle))

\* lines 1125-1131: src is the LocalNode the fsNode's fsid belonged to
localMoveFrom(w, row, F, parentRow, orc, src) ==
    IF src = 0 THEN Out(w, row, F, FALSE, FALSE)
    ELSE localMoveStable(
             IF w.ln[src].type = FILENODE
             THEN checkIfFileIsChanging(w, F[row.fsNode],
                                        getLocalPath(w.ln, src))
             ELSE [w |-> w, ret |-> FALSE],
             row, F, parentRow, orc, src)

\* Sync::checkLocalPathForMovesRenames
checkLocalPathForMovesRenames(w, row, F, parentRow, fullPath, orc) ==
    LET fsNode == F[row.fsNode]
        s == row.syncNode
    IN  IF fsNode.isSymlink THEN Out(blockRow(w, row), row, F, TRUE, FALSE)
        ELSE IF s # 0 /\ w.ln[s].type # fsNode.type
        THEN Out(blockRow(w, row), row, F, TRUE, FALSE)
        ELSE localMoveFrom(w, row, F, parentRow, orc,
                           findLocalNodeByFsid(w, fsNode))

\* the folder n, if there is one, is to be scanned
scanIf(w, n, doBelow) ==
    IF n # 0 THEN [w EXCEPT !.ln = setFutureScan(@, n, TRUE, doBelow)] ELSE w

\* lines 1340-1360: the local file or folder follows the cloud node
cloudMoveTo(w, row, F, parentRow, fullPath, orc, src, sourcePath) ==
    IF ~orc.fsFail /\ canRename(w.fs, sourcePath, fullPath)
    THEN Out(Act(moved(scanIf(scanIf([w EXCEPT !.fs = MoveTree(@, sourcePath,
                                                               fullPath)],
                                     w.ln[src].parent, FALSE),
                              w.ln[parentRow.syncNode].parent, TRUE)),
                 "renamelocal", sourcePath, fullPath),
             row, F, TRUE, FALSE)
    ELSE IF orc.fsFail THEN Out(blockRow(w, row), row, F, TRUE, FALSE)
    ELSE Out(w, row, F, FALSE, FALSE)

\* lines 1330-1338: src is the LocalNode that was synced with the cloud node
cloudMoveFrom(w, row, F, parentRow, fullPath, orc, src) ==
    IF src = 0 \/ src = row.syncNode THEN Out(w, row, F, FALSE, FALSE)
    ELSE cloudMoveTo(w, row, F, parentRow, fullPath, orc, src,
                     getLocalPath(w.ln, src))

\* Sync::checkCloudPathForMovesRenames
checkCloudPathForMovesRenames(w, row, F, parentRow, fullPath, orc) ==
    IF row.syncNode # 0 /\ w.ln[row.syncNode].type # w.cn[row.cloudNode].type
    THEN Out(blockRow(w, row), row, F, TRUE, FALSE)
    ELSE cloudMoveFrom(w, row, F, parentRow, fullPath, orc,
                       findLocalNodeByNodeHandle(w, row.cloudNode))

(***************************************************************************)
(* The resolve_* steps.  Each returns the world, the row and the row's     *)
(* result.                                                                 *)
(***************************************************************************)
Res(w, row, ret) == [w |-> w, row |-> row, ret |-> ret]

FsIds == 7..(7 + Cardinality(Paths))

\* the fsid the filesystem gives a new entry: one no entry holds
newFsid(fs) ==
    LET used == {fs[p].fsid : p \in {q \in DOMAIN fs : fs[q].exists}}
    IN  CHOOSE i \in FsIds \ used : \A j \in FsIds \ used : i <= j

\* a new folder is to be scanned with all below it
scanNewFolder(w, l, type) ==
    IF type # FILENODE THEN [w EXCEPT !.ln = setFutureScan(@, l, TRUE, TRUE)]
    ELSE w

\* the parent folder is to be scanned
scanParent(w, parentRow) ==
    [w EXCEPT !.ln = setFutureScan(@, parentRow.syncNode, TRUE, FALSE)]

\* Sync::resolve_makeSyncNode_fromFS
resolve_makeSyncNode_fromFS(w, row, F, parentRow, fullPath) ==
    LET l == newLocalNode(w)
        fsNode == F[row.fsNode]
        fp == IF fsNode.type = FILENODE THEN fsNode.fingerprint
              ELSE NoFingerprint
    IN  IF l = 0 THEN Res([w EXCEPT !.overflow = TRUE], row, FALSE)
        ELSE Res(Act([scanParent(
                        statecacheadd(
                          scanNewFolder(
                            setfsid(init(w, l, fsNode.type, parentRow.syncNode,
                                         fullPath, fp),
                                    l, fsNode.fsid),
                            l, fsNode.type),
                          l),
                        parentRow)
                      EXCEPT !.assertOk =
                                 /\ @ /\ row.syncNode = 0
                                 /\ (fsNode.type = FILENODE
                                        => fsNode.fingerprint.isvalid)],
                     "makeSyncNode_fromFS", l, fullPath),
                 [row EXCEPT !.syncNode = l], FALSE)

\* Sync::resolve_makeSyncNode_fromCloud
resolve_makeSyncNode_fromCloud(w, row, F, parentRow, fullPath) ==
    LET l == newLocalNode(w)
        c == w.cn[row.cloudNode]
        fp == IF c.type = FILENODE THEN c.fingerprint ELSE NoFingerprint
    IN  IF l = 0 THEN Res([w EXCEPT !.overflow = TRUE], row, FALSE)
        ELSE Res(Act(statecacheadd(
                       [scanParent(
                          scanNewFolder(
                            setSyncedNodeHandle(
                              init(w, l, c.type, parentRow.syncNode, fullPath,
                                   fp),
                              l, row.cloudNode),
                            l, c.type),
                          parentRow)
                        EXCEPT !.assertOk =
                                   @ /\ (c.type = FILENODE
                                            => c.fingerprint.isvalid)],
                       l),
                     "makeSyncNode_fromCloud", l, fullPath),
                 row, FALSE)

\* Sync::resolve_delSyncNode
resolve_delSyncNode(w, row, F, parentRow, fullPath) ==
    IF w.flags.scansAndMovesComplete
    THEN Res(deleteLocalNode(w, row.syncNode), [row EXCEPT !.syncNode = 0],
             FALSE)
    ELSE Res(w, row, FALSE)

\* Sync::resolve_upsync
resolve_upsync(w, row, F, parentRow, fullPath) ==
    IF F[row.fsNode].type = FILENODE
    THEN IF ~w.ln[row.syncNode].transfer /\ parentRow.cloudNode # 0
         THEN Res(Act([w EXCEPT !.ln[row.syncNode].transfer = TRUE,
                                !.assertOk =
                                    @ /\ w.ln[row.syncNode].fingerprint.isvalid],
                      "startxfer_put", row.syncNode, fullPath),
                  row, FALSE)
         ELSE Res(w, row, FALSE)
    ELSE Res(Act([w EXCEPT !.ub = @ \/ parentRow.cloudNode = 0],
                 "putnodes", parentRow.cloudNode, w.ln[row.syncNode].name),
             row, FALSE)

\* FileSystemAccess::mkdirlocal
canMkdir(fs, p) ==
    /\ p \in DOMAIN fs
    /\ ~fs[p].exists
    /\ \/ Len(p) = 1
       \/ (FsAt(fs, SubSeq(p, 1, Len(p) - 1)).exists
           /\ FsAt(fs, SubSeq(p, 1, Len(p) - 1)).type = FOLDERNODE)

\* Sync::resolve_downsync
resolve_downsync(w, row, F, parentRow, fullPath, orc, alreadyExists) ==
    IF w.cn[row.cloudNode].type = FILENODE
    THEN IF ~w.cn[row.cloudNode].syncget
         THEN Res(Act([w EXCEPT !.cn[row.cloudNode].syncget = TRUE],
                      "startxfer_get", row.cloudNode, fullPath),
                  row, FALSE)
         ELSE Res(w, row, FALSE)
    ELSE LET w0 == [w EXCEPT !.assertOk = @ /\ ~alreadyExists]
         IN  IF ~orc.fsFail /\ canMkdir(w.fs, fullPath)
             THEN Res(Act([w0 EXCEPT
                             !.fs[fullPath] =
                                 [NoEntry EXCEPT !.exists = TRUE,
                                                 !.type = FOLDERNODE,
                                                 !.fsid = newFsid(w.fs)],
                             !.ln = setFutureScan(@, parentRow.syncNode,
                                                  TRUE, FALSE),
                             !.assertOk = @ /\ row.syncNode # 0],
                          "mkdirlocal", fullPath, 0),
                      row, FALSE)
             ELSE Res(blockRow(w0, row), row, FALSE)

\* Sync::resolve_userIntervention
resolve_userIntervention(w, row, F, parentRow, fullPath) == Res(w, row, FALSE)

\* Sync::resolve_pickWinner
resolve_pickWinner(w, row, F, parentRow, fullPath) == Res(w, row, FALSE)

\* lines 2476-2477 without the setFutureScan of the parent
movedToDebrisUnscanned(w, row, parentRow) ==
    Res(w, [row EXCEPT !.suppressRecursion = TRUE], FALSE)

\* lines 2476-2477: the item is in the debris; the row is not descended
\* into and its directory is scanned again
movedToDebris(w, row, parentRow) ==
    Res([w EXCEPT !.ln = setFutureScan(@, parentRow.syncNode, TRUE, FALSE)],
        [row EXCEPT !.suppressRecursion = TRUE], FALSE)

\* Sync::resolve_cloudNodeGone
resolve_cloudNodeGone(w, row, F, parentRow, fullPath, orc) ==
    LET r == movetolocaldebris(w, fullPath, orc.fsFail)
    IN  IF w.flags.scansAndMovesComplete /\ r.ret
        THEN movedToDebris(r.w, row, parentRow)
        ELSE Res(w, row, FALSE)

\* Sync::resolve_fsNodeGone
resolve_fsNodeGone(w, row, F, parentRow, fullPath) ==
    LET w1 == IF /\ w.flags.scansAndMovesComplete
                 /\ ~w.ln[row.syncNode].deleting
              THEN [movetosyncdebris(w, row.cloudNode)
                       EXCEPT !.ln[row.syncNode].deleting = TRUE]
              ELSE w
    IN  Res(w1, [row EXCEPT !.suppressRecursion =
                                @ \/ w1.ln[row.syncNode].deleting], FALSE)

(***************************************************************************)
(* Sync::syncItem.                                                         *)
(***************************************************************************)
\* the three nodes of a row as values; a missing one is the empty record
cloudOf(w, row) == IF row.cloudNode = 0 THEN NoCloudNode ELSE w.cn[row.cloudNode]
syncOf(w, row) == IF row.syncNode = 0 THEN NoLocalNode ELSE w.ln[row.syncNode]
fsOf(row, F) == IF row.fsNode = 0 THEN NoFSNode ELSE F[row.fsNode]

\* tableBranch with the test of the syncNode's fsid inverted
tableBranchFsidInverted(w, row, F) ==
    LET c == cloudOf(w, row)
        l == syncOf(w, row)
        f == fsOf(row, F)
        cloudEqual == syncEqualCloud(c, l)
        fsEqual == syncEqual(f, l)
    IN  IF row.syncNode # 0
        THEN IF row.fsNode # 0
             THEN IF row.cloudNode # 0
                  THEN IF cloudEqual /\ fsEqual THEN "synced"
                       ELSE IF cloudEqual THEN "upsync"
                       ELSE IF fsEqual THEN "downsync"
                       ELSE "userIntervention"
                  ELSE IF l.syncedCloudNodeHandle = UNDEF THEN "upsync"
                       ELSE "cloudNodeGone"
             ELSE IF row.cloudNode # 0
                  THEN IF l.fsid = UNDEF THEN "fsNodeGone" ELSE "downsync"
                  ELSE "delSyncNode"
        ELSE IF row.fsNode # 0
             THEN IF row.cloudNode # 0
                  THEN IF f.type # c.type THEN "userIntervention"
                       ELSE IF \/ f.type # FILENODE
                               \/ f.fingerprint = c.fingerprint
                       THEN "makeSyncNode_fromFS"
                       ELSE "pickWinner"
                  ELSE "makeSyncNode_fromFS"
             ELSE IF row.cloudNode # 0 THEN "makeSyncNode_fromCloud"
                  ELSE "none"

\* the case of the eight-way table a row falls in
tableBranch(w, row, F) ==
    LET c == cloudOf(w, row)
        l == syncOf(w, row)
        f == fsOf(row, F)
        cloudEqual == syncEqualCloud(c, l)
        fsEqual == syncEqual(f, l)
    IN  IF row.syncNode # 0
        THEN IF row.fsNode # 0
             THEN IF row.cloudNode # 0
                  THEN IF cloudEqual /\ fsEqual THEN "synced"
                       ELSE IF cloudEqual THEN "upsync"
                       ELSE IF fsEqual THEN "downsync"
                       ELSE "userIntervention"
                  ELSE IF l.syncedCloudNodeHandle = UNDEF THEN "upsync"
                       ELSE "cloudNodeGone"
             ELSE IF row.cloudNode # 0
                  THEN IF l.fsid # UNDEF THEN "fsNodeGone" ELSE "downsync"
                  ELSE "delSyncNode"
        ELSE IF row.fsNode # 0
             THEN IF row.cloudNode # 0
                  THEN IF f.type # c.type THEN "userIntervention"
                       ELSE IF \/ f.type # FILENODE
                               \/ f.fingerprint = c.fingerprint
                       THEN "makeSyncNode_fromFS"
                       ELSE "pickWinner"
                  ELSE "makeSyncNode_fromFS"
             ELSE IF row.cloudNode # 0 THEN "makeSyncNode_fromCloud"
                  ELSE "none"

\* the row is synced: fsid and handle are recorded when either differs
rowIsSynced(w, row, F) ==
    LET l == row.syncNode
        w1 == setfsid(w, l, F[row.fsNode].fsid)
        w2 == setSyncedNodeHandle(w1, l, row.cloudNode)
    IN  IF \/ w.ln[l].fsid # F[row.fsNode].fsid
           \/ w.ln[l].syncedCloudNodeHandle # row.cloudNode
        THEN Res(statecacheadd(w2, l), row, TRUE)
        ELSE Res(w, row, TRUE)

\* the step the table's case calls
applyBranch(branch, w, row, F, parentRow, fullPath, orc) ==
    CASE branch = "synced" -> rowIsSynced(w, row, F)
      [] branch = "upsync" -> resolve_upsync(w, row, F, parentRow, fullPath)
      [] branch = "downsync" ->
            resolve_downsync(w, row, F, parentRow, fullPath, orc,
                             row.fsNode # 0)
      [] branch = "userIntervention" ->
            resolve_userIntervention(w, row, F, parentRow, fullPath)
      [] branch = "cloudNodeGone" ->
            resolve_cloudNodeGone(w, row, F, parentRow, fullPath, orc)
      [] branch = "fsNodeGone" ->
            resolve_fsNodeGone(w, row, F, parentRow, fullPath)
      [] branch = "delSyncNode" ->
            resolve_delSyncNode(w, row, F, parentRow, fullPath)
      [] branch = "makeSyncNode_fromFS" ->
            resolve_makeSyncNode_fromFS(w, row, F, parentRow, fullPath)
      [] branch = "pickWinner" ->
            resolve_pickWinner(w, row, F, parentRow, fullPath)
      [] branch = "makeSyncNode_fromCloud" ->
            resolve_makeSyncNode_fromCloud(w, row, F, parentRow, fullPath)
      [] OTHER -> Res([w EXCEPT !.assertOk = FALSE], row, FALSE)

\* the node is to be scanned: its scanAgain says so, or that of a folder
\* above it says so for all below (node.h, lines 390-393)
scanCovers(ln, n) ==
    \/ ln[n].scanAgain >= TREE_ACTION_HERE
    \/ \E up \in Ancestors(ln, n) : ln[up].scanAgain = TREE_ACTION_SUBTREE

\* one entry of the pass's row log: the row as syncItem met it at `stage`
\* ("blocked", "localMove", "cloudMove" or the table's case), its result,
\* the syncNode as the step left it, the row's suppressRecursion and the
\* directory's scanAgain as the step left them, whether the step left the
\* world as it was, and whether the syncNode is in the state cache or
\* queued for it
Logged(w0, w, row0, row, F, parentRow, stage, ret) ==
    [w EXCEPT !.log = Append(@,
        [dir |-> parentRow.syncNode, dirCloud |-> parentRow.cloudNode,
         cloudNode |-> row0.cloudNode, syncNode |-> row0.syncNode,
         fsNode |-> row0.fsNode,
         c |-> cloudOf(w0, row0), s |-> syncOf(w0, row0), f |-> fsOf(row0, F),
         clash |-> row0.cloudClashingNames # <<>> \/ row0.fsClashingNames # <<>>,
         stage |-> stage, ret |-> ret,
         smc |-> w0.flags.scansAndMovesComplete,
         after |-> syncOf(w, row),
         suppressRecursion |-> row.suppressRecursion,
         dirScanAgain |-> syncOf(w, parentRow).scanAgain,
         same |-> /\ w.acts = w0.acts /\ w.flags = w0.flags
                  /\ w.insertq = w0.insertq /\ w.deleteq = w0.deleteq
                  /\ \A n \in DOMAIN w0.ln : w.ln[n] = w0.ln[n]
                  /\ \A h \in DOMAIN w0.cn : w.cn[h] = w0.cn[h]
                  /\ \A q \in DOMAIN w0.fs : w.fs[q] = w0.fs[q],
         kept |-> row.syncNode # 0 /\ (\/ w.ln[row.syncNode].dbid # 0
                                       \/ row.syncNode \in w.insertq),
         source |-> IF row0.cloudNode = 0 THEN 0
                    ELSE findLocalNodeByNodeHandle(w0, row0.cloudNode),
         toScan |-> {n \in DOMAIN w.ln : scanCovers(w.ln, n)},
         moved |-> w.flags.actionedMovesRenames,
         reused |-> w0.reused,
         s0 |-> w0.blocked])]

SyncItemOut(w, row, F, ret) == [w |-> w, row |-> row, F |-> F, ret |-> ret]

\* lines 2092-2100: a scan-blocked node has its parent scanned again
rescanParent(w, s, parentRow) ==
    IF s # 0 /\ w.ln[s].scanBlocked >= TREE_ACTION_HERE
    THEN [w EXCEPT !.ln = setFutureScan(@, parentRow.syncNode, TRUE, FALSE)]
    ELSE w

\* lines 2103-2109: a node of unknown type takes the fsNode's details
knowType(w, row, F) ==
    IF /\ row.syncNode # 0 /\ w.ln[row.syncNode].type = TYPE_UNKNOWN
       /\ row.fsNode # 0 /\ F[row.fsNode].type # TYPE_UNKNOWN
    THEN initFromFSNode(w, row.syncNode, F[row.fsNode]) ELSE w

\* lines 2111-2122: the blocked flags are cleared, and their timers reset
unblocked(l) ==
    [l EXCEPT
       !.useBlocked = IF @ >= TREE_DESCENDANT_FLAGGED THEN TREE_RESOLVED ELSE @,
       !.useBlockedTimer =
           IF l.useBlocked >= TREE_DESCENDANT_FLAGGED THEN "none" ELSE @,
       !.scanBlocked = IF @ >= TREE_DESCENDANT_FLAGGED THEN TREE_RESOLVED ELSE @,
       !.scanBlockedTimer =
           IF l.scanBlocked >= TREE_DESCENDANT_FLAGGED THEN "none" ELSE @]

unblock(w, s) == IF s = 0 THEN w ELSE [w EXCEPT !.ln[s] = unblocked(@)]

\* lines 2134-2136: the row's node, made if need be, is scan-blocked
scanBlockedRow(made) ==
    [w |-> [made.w EXCEPT !.ln = setScanBlocked(@, made.row.syncNode),
                          !.ub = @ \/ made.row.syncNode = 0],
     row |-> made.row, done |-> TRUE]

\* lines 2124-2138: an fsNode that could not be read blocks the row
blockedFsNode(w, row, F, parentRow, fullPath) ==
    IF /\ row.fsNode # 0
       /\ \/ F[row.fsNode].type = TYPE_UNKNOWN
          \/ F[row.fsNode].isBlocked
    THEN scanBlockedRow(
             IF row.syncNode = 0
             THEN resolve_makeSyncNode_fromFS(w, row, F, parentRow, fullPath)
             ELSE Res(w, row, FALSE))
    ELSE [w |-> w, row |-> row, done |-> FALSE]

\* lines 2074-2083 without the return of line 2081
useWaitsNever(l) == FALSE

\* lines 2074-2083: the node is use-blocked and its timer has not elapsed
useWaits(l) ==
    l.useBlocked >= TREE_ACTION_HERE /\ l.useBlockedTimer # "armed"

\* lines 2085-2099 without the return of line 2098
scanWaitsNever(l) == FALSE

\* lines 2085-2099: the node is scan-blocked and its timer has not elapsed
scanWaits(l) ==
    l.scanBlocked >= TREE_ACTION_HERE /\ l.scanBlockedTimer # "armed"

\* lines 2072-2138: the back-off timers, a node of unknown type, a blocked
\* fsNode.  done is TRUE when the row's visit ends here.
syncItemBlocked(w, row, F, parentRow, fullPath) ==
    LET s == row.syncNode
        useWait == s # 0 /\ useWaits(w.ln[s])
        scanWait == s # 0 /\ scanWaits(w.ln[s])
    IN  IF useWait \/ scanWait THEN [w |-> w, row |-> row, done |-> TRUE]
        ELSE blockedFsNode(
                 unblock(knowType(rescanParent(w, s, parentRow), row, F), s),
                 row, F, parentRow, fullPath)

\* the row's visit ends with the step's result
syncItemEnd(c, branch, d, parentRow) ==
    SyncItemOut(Logged(c.w, d.w, c.row, d.row, c.F, parentRow, branch, d.ret),
                d.row, c.F, d.ret)

\* lines 2165-2294: the table's case and its step
syncItemTable(c, branch, parentRow, fullPath, orc) ==
    syncItemEnd(c, branch,
                applyBranch(branch,
                            Trail(c.w, "table", parentRow.syncNode, c.w.cur),
                            c.row, c.F, parentRow, fullPath, orc),
                parentRow)

\* lines 2152-2163: the cloud side's move check, when the LocalNode knew
\* another cloud node
syncItemCloud(b, parentRow, fullPath, orc) ==
    IF /\ b.row.cloudNode # 0
       /\ \/ b.row.syncNode = 0
          \/ /\ b.w.ln[b.row.syncNode].syncedCloudNodeHandle # UNDEF
             /\ b.w.ln[b.row.syncNode].syncedCloudNodeHandle # b.row.cloudNode
    THEN checkCloudPathForMovesRenames(
             Trail(b.w, "cloudCheck", parentRow.syncNode, b.w.cur),
             b.row, b.F, parentRow, fullPath, orc)
    ELSE Out(b.w, b.row, b.F, FALSE, FALSE)

\* lines 2140-2150: the local side's move check, when the LocalNode knew
\* another fsid
syncItemLocal(a, F, parentRow, fullPath, orc) ==
    IF /\ a.row.fsNode # 0
       /\ \/ a.row.syncNode = 0
          \/ /\ a.w.ln[a.row.syncNode].fsid # UNDEF
             /\ a.w.ln[a.row.syncNode].fsid # F[a.row.fsNode].fsid
    THEN checkLocalPathForMovesRenames(
             Trail(a.w, "localCheck", parentRow.syncNode, a.w.cur),
             a.row, F, parentRow, fullPath, orc)
    ELSE Out(a.w, a.row, F, FALSE, FALSE)

syncItemAfterCloud(b, c, parentRow, fullPath, orc) ==
    IF c.handled
    THEN SyncItemOut(Logged(b.w, c.w, b.row, c.row, b.F, parentRow,
                            "cloudMove", c.ret),
                     c.row, c.F, c.ret)
    ELSE syncItemTable(c, tableBranch(c.w, c.row, c.F), parentRow, fullPath,
                       orc)

syncItemAfterLocal(a, b, F, parentRow, fullPath, orc) ==
    IF b.handled
    THEN SyncItemOut(Logged(a.w, b.w, a.row, b.row, F, parentRow,
                            "localMove", b.ret),
                     b.row, b.F, b.ret)
    ELSE syncItemAfterCloud(b, syncItemCloud(b, parentRow, fullPath, orc),
                            parentRow, fullPath, orc)

syncItemAfterBlocked(w, row, a, F, parentRow, fullPath, orc) ==
    IF a.done
    THEN SyncItemOut(Logged(w, a.w, row, a.row, F, parentRow, "blocked",
                            FALSE),
                     a.row, F, FALSE)
    ELSE syncItemAfterLocal(a, syncItemLocal(a, F, parentRow, fullPath, orc),
                            F, parentRow, fullPath, orc)

syncItemAt(w, row, F, parentRow, fullPath, orc) ==
    syncItemAfterBlocked(w, row,
                         syncItemBlocked(w, row, F, parentRow, fullPath),
                         F, parentRow, fullPath, orc)

\* Sync::syncItem
syncItem(wIn, row, F, parentRow, fullPath, orc) ==
    syncItemAt(Trail([wIn EXCEPT !.cur = Len(wIn.log) + 1,
                                 !.reused = falseFsidMatch(wIn, row, F),
                                 !.blocked = blockedFlags(syncOf(wIn, row))],
                     "item",
                     parentRow.syncNode, Len(wIn.log) + 1),
               row, F, parentRow, fullPath, orc)

(***************************************************************************)
(* Sync::recursiveSync.                                                    *)
(***************************************************************************)
\* the scan debounce of line 1841, in deciseconds
ScanDebounceDs == 20

\* Sync::localdebris below the sync root (lines 574-578)
localdebris == <<".debris">>

\* LocalPath::isContainingPathOf
isContainingPathOf(p, q) == IsPrefix(p, q)

\* lines 81 and 336 without the test: no path is taken to be in the debris
inDebrisNever(path) == FALSE

\* lines 81 and 336: the path is the debris folder or lies in it
inDebris(path) == isContainingPathOf(localdebris, path)

\* ScanService::scan: the request remembers the target's children that have
\* an fsid; a request for the debris is complete at once and is not queued
scan(w, n, localPath) ==
    [active |-> TRUE, target |-> n, path |-> localPath,
     known |-> {getKnownFSDetails(w.ln[c]) :
                   c \in {x \in Children(w.ln, n) : w.ln[x].fsid # UNDEF}},
     queued |-> ~inDebris(localPath), completed |-> inDebris(localPath),
     results |-> <<>>]

\* ScanRequest::matches
matches(req, n) == req.active /\ req.target = n

\* the child row's path: the fsNode's name, else the LocalNode's, else the
\* cloud node's
rowPath(w, childRow, F, localPath) ==
    IF childRow.fsNode # 0 THEN Append(localPath, F[childRow.fsNode].name)
    ELSE IF childRow.syncNode # 0
    THEN Append(localPath, w.ln[childRow.syncNode].name)
    ELSE IF childRow.cloudNode # 0
    THEN Append(localPath, w.cn[childRow.cloudNode].name)
    ELSE localPath

\* line 1841 without its test of mScanRequest
slotEmptyOrNot(req) == TRUE

\* line 1841: !mScanRequest
slotEmpty(req) == ~req.active

\* line 1841 with the debounce left out: a scan is asked for whenever none
\* is outstanding
scanDueAtOnce(w, n) == ~w.req.active

\* line 1841: no scan request is outstanding and the debounce has passed
\* since the directory's last scan
scanDue(w, n) ==
    LET elapsed == w.now - w.ln[n].lastScanTime
    IN  slotEmpty(w.req) /\ elapsed >= ScanDebounceDs

\* lines 1836-1870: the scan gate.  Returns the world and syncHere, and
\* whether a scan was asked for and whether one was taken.
scanGate(w, n, localPath, wasSynced) ==
    IF w.ln[n].scanAgain >= TREE_ACTION_HERE
    THEN LET w1 == [w EXCEPT !.flags.performedScans = TRUE]
         IN  IF scanDue(w, n)
             THEN [w |-> Trail([w1 EXCEPT !.req = scan(w, n, localPath),
                                          !.ln[n].scanRequestedAt = w.now],
                               "request", n, 0),
                   syncHere |-> FALSE, requested |-> TRUE,
                   consumed |-> FALSE]
             ELSE IF matches(w.req, n) /\ w.req.completed
             THEN [w |-> Trail([w1 EXCEPT
                            !.ln = setFutureSync(
                                [@ EXCEPT ![n].lastFolderScan = w.req.results,
                                          ![n].hasFolderScan = TRUE,
                                          ![n].lastScanTime = w.now,
                                          ![n].scanAgain = TREE_RESOLVED],
                                n, TRUE, FALSE),
                            !.req = NoRequest], "consume", n, 0),
                   syncHere |-> TRUE, requested |-> FALSE,
                   consumed |-> TRUE]
             ELSE [w |-> w1, syncHere |-> FALSE, requested |-> FALSE,
                   consumed |-> FALSE]
    ELSE [w |-> [w EXCEPT !.ln[n].scanAgain = TREE_RESOLVED],
          syncHere |-> ~wasSynced, requested |-> FALSE, consumed |-> FALSE]

\* lines 1872-1889: the last scan, else what the LocalNodes remember
effectiveFsChildren(w, n) ==
    IF w.ln[n].hasFolderScan THEN w.ln[n].lastFolderScan
    ELSE LET kids == {x \in Children(w.ln, n) : w.ln[x].fsid # UNDEF}
             order == SortSet(kids, [x \in kids |->
                                        NameOrd(w.ln[x].name) * 16 + x])
         IN  Vector([i \in DOMAIN order |->
                        getKnownFSDetails(w.ln[order[i]])])

\* lines 2004-2015: the directory's flags recomputed from its folders
rollUp(ln, n) ==
    LET kids == {x \in Children(ln, n) : ln[x].type # FILENODE}
        open == ln[n].conflicts < TREE_ACTION_HERE
        up(flag, S) == IF flag = TREE_RESOLVED /\ S # {}
                       THEN TREE_DESCENDANT_FLAGGED ELSE flag
    IN  [ln EXCEPT
           ![n].scanAgain =
               IF open
               THEN up(@, {x \in kids : ln[x].scanAgain # TREE_RESOLVED})
               ELSE @,
           ![n].syncAgain =
               IF open
               THEN up(@, {x \in kids : ln[x].syncAgain # TREE_RESOLVED})
               ELSE @,
           ![n].conflicts =
               up(@, {x \in kids : ln[x].conflicts # TREE_RESOLVED})]

RECURSIVE recursiveSync(_, _, _, _)
RECURSIVE visitRows(_, _, _, _, _, _, _)

\* the directory and the request slot as the scan gate left them
Gated(w, n) ==
    [scanAgain |-> w.ln[n].scanAgain, syncAgain |-> w.ln[n].syncAgain,
     lastScanTime |-> w.ln[n].lastScanTime,
     hasFolderScan |-> w.ln[n].hasFolderScan,
     lastFolderScan |-> w.ln[n].lastFolderScan,
     request |-> w.req]

\* one entry of the pass's log of recursiveSync calls: w0 is the world the
\* call of directory n met, w the world it left
Visited(w0, w, n, early, g, syncHere, folderSynced, ret) ==
    [w EXCEPT !.visits = Append(@,
        [dir |-> n, early |-> early, now |-> w0.now,
         scanAgain0 |-> w0.ln[n].scanAgain, request0 |-> w0.req,
         gated |-> IF early THEN Gated(w0, n) ELSE Gated(g.w, n),
         deleting |-> w0.ln[n].deleting,
         scanBefore |-> w0.ln[n].hasFolderScan,
         scanAfter |-> w.ln[n].hasFolderScan,
         requested |-> g.requested, consumed |-> g.consumed,
         prevRequest |-> w0.ln[n].scanRequestedAt,
         syncHere |-> syncHere, folderSynced |-> folderSynced,
         ret |-> ret,
         ln0 |-> [i \in DOMAIN w0.ln |-> w0.ln[i]],
         pushed |-> IF early THEN [i \in DOMAIN w0.ln |-> w0.ln[i]]
                    ELSE [i \in DOMAIN g.w.ln |-> g.w.ln[i]],
         ln |-> [i \in DOMAIN w.ln |-> w.ln[i]]])]

\* line 1917: a row with clashing names flags the directory
flagClash(w, childRow, row) ==
    IF childRow.cloudClashingNames # <<>> \/ childRow.fsClashingNames # <<>>
    THEN [w EXCEPT !.ln = conflictDetected(@, row.syncNode)]
    ELSE w

\* lines 1935-1949: in the initial scan a cached node without fsid takes
\* the fsid of the fsNode it equals
assignFsid(w, childRow, F, row) ==
    /\ w.state = "SYNC_INITIALSCAN"
    /\ ~w.ln[row.syncNode].assigned
    /\ childRow.syncNode # 0
    /\ w.ln[childRow.syncNode].fsid = UNDEF
    /\ childRow.fsNode # 0
    /\ syncEqual(F[childRow.fsNode], w.ln[childRow.syncNode])

\* line 1932: assert(!childRow.syncNode || path == its getLocalPath())
assertPath(w, l, path) ==
    [w EXCEPT !.assertOk = @ /\ (l = 0 \/ getLocalPath(w.ln, l) = path)]

\* lines 1951-1958: the row's syncItem has run
itemDone(st, i, item) ==
    [st EXCEPT !.w = item.w, !.rows[i] = item.row, !.F = item.F,
               !.folderSynced = @ /\ item.ret]

\* lines 1966-1974: the row's folder has been descended into
subDone(st, sub) ==
    [st EXCEPT !.w = sub.w, !.subfoldersSynced = @ /\ sub.ret]

\* lines 1951-1974: the first pass gives the row to syncItem, the second
\* descends into its folder
visitItem(st, i, childRow, firstPass, row, path, syncHere, orc) ==
    IF firstPass
    THEN IF syncHere
         THEN itemDone(st, i, syncItem(st.w, childRow, st.F, row, path, orc))
         ELSE st
    ELSE IF /\ childRow.syncNode # 0
            /\ st.w.ln[childRow.syncNode].type = FOLDERNODE
            /\ ~childRow.suppressRecursion
         THEN subDone(st, recursiveSync(Trail(st.w, "descend", row.syncNode,
                                              childRow.syncNode),
                                        childRow, path, orc))
         ELSE st

\* lines 1920-1949: w is the world after the clash check
visitAt(st, w, i, childRow, firstPass, row, path, syncHere, orc) ==
    LET assign == assignFsid(w, childRow, st.F, row)
        l == childRow.syncNode
    IN  visitItem(
            [st EXCEPT
               !.w = assertPath(
                         IF assign
                         THEN statecacheadd(
                                  setfsid(w, l, st.F[childRow.fsNode].fsid), l)
                         ELSE w,
                         l, path),
               !.fsidsAssigned = @ \/ assign],
            i, childRow, firstPass, row, path, syncHere, orc)

visitChild(st, w, i, childRow, firstPass, row, localPath, syncHere, orc) ==
    visitAt(st, w, i, childRow, firstPass, row,
            rowPath(w, childRow, st.F, localPath), syncHere, orc)

\* one child row of the loop
visitRow(st, i, childRow, firstPass, row, localPath, syncHere, orc) ==
    visitChild(st, flagClash(st.w, childRow, row), i, childRow, firstPass,
               row, localPath, syncHere, orc)

\* lines 1908-1984: the child rows from the i-th on, in the first pass
\* (syncItem) or the second (descent).  st holds the world, the rows, the
\* directory's fsNodes and the three results of the loop.
visitRows(st, i, firstPass, row, localPath, syncHere, orc) ==
    IF i > Len(st.rows) THEN st
    ELSE visitRows(visitRow(st, i, st.rows[i], firstPass, row, localPath,
                            syncHere, orc),
                   i + 1, firstPass, row, localPath, syncHere, orc)

\* lines 1826-1834: the subtree flags go down to the child folders
pushFlags(w, n) ==
    [w EXCEPT !.ln = [x \in DOMAIN @ |->
        IF x \in Children(w.ln, n) /\ w.ln[x].type # FILENODE
        THEN [@[x] EXCEPT
                !.scanAgain = propagateSubtreeFlag(w.ln[n].scanAgain, @),
                !.syncAgain = propagateSubtreeFlag(w.ln[n].syncAgain, @)]
        ELSE @[x]]]

\* lines 1891-1904: the rows are computed
afterTriplets(g, trip, n) ==
    [g.w EXCEPT !.flags.scanTargetReachable = @ \/ matches(g.w.req, n),
                !.ln[n].conflicts = TREE_RESOLVED,
                !.assertOk = @ /\ trip.assertOk,
                !.ub = @ \/ trip.ub]

\* lines 1986-2029: the folder's scan is kept or dropped, its flags are
\* recomputed
syncEnd(st2, n, syncHere, hadScan, wasSynced) ==
    [folderSynced |-> st2.folderSynced,
     w |-> [[st2.w EXCEPT
               !.ln[n].lastFolderScan =
                   IF st2.folderSynced \/ ~hadScan THEN <<>> ELSE st2.F,
               !.ln[n].hasFolderScan = hadScan /\ ~st2.folderSynced,
               !.ln[n].assigned = @ \/ st2.fsidsAssigned,
               !.ln[n].syncAgain =
                   IF /\ st2.w.flags.scansAndMovesComplete
                      /\ \/ (syncHere /\ st2.folderSynced)
                         \/ (~syncHere /\ wasSynced)
                   THEN TREE_RESOLVED ELSE @]
            EXCEPT !.ln = rollUp(@, n)],
     ret |-> st2.folderSynced /\ st2.subfoldersSynced]

\* line 1904: no sync actions while a command on the cloud folder is on
\* its way
syncHereNow(w, g, row) ==
    /\ g.syncHere
    /\ \/ row.cloudNode = 0
       \/ w.cn[row.cloudNode].mPendingChanges = <<>>

\* line 1906 the other way round: the descent first, then syncItem
passesDescentFirst == <<FALSE, TRUE>>

\* line 1906: firstPass is true in the first turn of the outer loop and
\* false in the second
passes == <<TRUE, FALSE>>

\* lines 1906-1984: the two passes over the rows
syncVisit(w, g, trip, hadScan, wasSynced, row, localPath, orc) ==
    LET syncHere == syncHereNow(w, g, row)
        st0 == [w |-> Trail(w, IF syncHere THEN "rows" ELSE "norows",
                            row.syncNode, Len(trip.rows)),
                rows |-> trip.rows, F |-> trip.fsNodes,
                folderSynced |-> g.syncHere, fsidsAssigned |-> FALSE,
                subfoldersSynced |-> TRUE]
    IN  syncEnd(visitRows(visitRows(st0, 1, passes[1], row, localPath,
                                    syncHere, orc),
                          1, passes[2], row, localPath, syncHere, orc),
                row.syncNode, syncHere, hadScan, wasSynced)

syncRows(g, trip, wasSynced, row, localPath, orc) ==
    syncVisit(afterTriplets(g, trip, row.syncNode), g, trip,
              g.w.ln[row.syncNode].hasFolderScan, wasSynced, row, localPath,
              orc)

\* lines 1872-1891: g is what the scan gate left
syncGated(g, wasSynced, row, localPath, orc) ==
    syncRows(g,
             computeSyncTriplets(CloudChildren(g.w.cn, row.cloudNode), g.w.cn,
                                 Children(g.w.ln, row.syncNode), g.w.ln,
                                 effectiveFsChildren(g.w, row.syncNode),
                                 FALSE, FALSE),
             wasSynced, row, localPath, orc)

\* lines 1836-1870
syncFolder(w, wasSynced, row, localPath, orc) ==
    syncGated(scanGate(w, row.syncNode, localPath, wasSynced), wasSynced, row,
              localPath, orc)

syncFlagged(w, row, localPath, orc) ==
    syncFolder(w, w.ln[row.syncNode].syncAgain < TREE_ACTION_HERE, row,
               localPath, orc)

\* the call of directory n that met the world w0 returns r
returned(w0, r, n, g, row) ==
    [w |-> Visited(w0, Trail(r.w, "leave", n, 0), n, FALSE, g,
                   syncHereNow(g.w, g, row), r.folderSynced, r.ret),
     ret |-> r.ret]

NoGate == [requested |-> FALSE, consumed |-> FALSE]

\* Sync::recursiveSync
recursiveSync(w, row, localPath, orc) ==
    IF ~(scanRequired(w.ln[row.syncNode]) \/ syncRequired(w.ln[row.syncNode]))
    THEN [w |-> Visited(w, w, row.syncNode, TRUE, NoGate, FALSE, FALSE,
                        TRUE),
          ret |-> TRUE]
    ELSE returned(w, syncFlagged(pushFlags(Trail(w, "enter", row.syncNode, 0),
                                           row.syncNode),
                                 row, localPath, orc),
                  row.syncNode,
                  scanGate(pushFlags(w, row.syncNode), row.syncNode, localPath,
                           w.ln[row.syncNode].syncAgain < TREE_ACTION_HERE),
                  row)

(***************************************************************************)
(* State.                                                                  *)
(***************************************************************************)
VARIABLES
    tripIn,     \* the arguments of a computeSyncTriplets call
    tripOut,    \* what the call returned, NoResult before it
    lnodes,     \* the LocalNode pool: id -> LocalNode
    cnodes,     \* the client's cloud nodes: handle -> Node
    fsidIdx,    \* MegaClient::localnodeByFsid
    handleIdx,  \* MegaClient::localnodeByNodeHandle
    fsys,       \* the filesystem below the sync root: path -> entry
    notifyq,    \* DirNotify::notifyq, the paths notified
    mScanRequest,               \* Sync::mScanRequest
    mSyncFlags,                 \* MegaClient::mSyncFlags
    mFileChangingCheckState,    \* MegaClient::mFileChangingCheckState
    insertq,    \* Sync::insertq
    deleteq,    \* Sync::deleteq
    state,      \* Sync::state
    ds,         \* Waiter::ds
    acts,       \* what the last pass did
    rowlog,     \* the rows the last pass gave to syncItem
    visitlog,   \* the recursiveSync calls of the last pass
    trail,      \* the steps of the last pass in the order they were taken
    statecachetable,    \* Sync::statecachetable: the rows by dbid, nextid
    cachelog,   \* the rows the last cachenodes deleted and wrote, in order
    fsstableids,        \* Sync::fsstableids
    mWorker,    \* ScanService::mWorker with its threads, the requests made
                \* and the services' cookies
    syncConfigs,        \* MegaClient::syncConfigs, the SyncConfigBag and
                        \* its table
    debris,     \* a call of Sync::movetolocaldebris and the folders it meets
    scanServices,       \* ScanService::mNumServices, mWorkerLock, whether
                        \* mWorker is there, and the threads that make and
                        \* destroy services
    ub,         \* undefined behaviour was met
    assertOk,   \* no assertion has failed
    envLeft,    \* the changes the outside may still make
    issued,     \* the renames, moves and transfers started since the outside
                \* last changed the filesystem or the cloud
    start       \* the world the sync started in

tripVars == <<tripIn, tripOut>>

recVars == <<lnodes, cnodes, fsidIdx, handleIdx, fsys, notifyq, mScanRequest,
             mSyncFlags, mFileChangingCheckState, insertq, deleteq, state, ds,
             acts, rowlog, visitlog, trail, statecachetable, cachelog, fsstableids,
             mWorker, syncConfigs, debris, scanServices, ub, assertOk, envLeft,
             issued,
             start>>

vars == <<tripIn, tripOut, lnodes, cnodes, fsidIdx, handleIdx, fsys, notifyq,
          mScanRequest, mSyncFlags, mFileChangingCheckState, insertq, deleteq,
          state, ds, acts, rowlog, visitlog, trail, statecachetable, cachelog,
          fsstableids, mWorker, syncConfigs, debris, scanServices, ub,
          assertOk, envLeft,
          issued, start>>

NoResult == [rows |-> <<>>, fsNodes |-> <<>>, assertOk |-> TRUE, ub |-> FALSE,
             called |-> FALSE]

(***************************************************************************)
(* The reconciler's start: a sync whose tree was restored from its state   *)
(* cache and is about to be scanned for the first time.  The tree is empty *)
(* or holds the synced file "a".                                           *)
(***************************************************************************)
\* the changes the outside makes to the filesystem and the cloud
EnvBudget == 1
\* the renames, moves and transfers the history of a run keeps
MaxIssued == 4
\* the ticks of the clock
MaxTicks == 2
\* deciseconds per tick
TickDs == 20

\* ScanService::mWorker before the first service is made; taken lists the
\* requests in the order the threads took them from mPending.  Where a scan is
\* one step (ScanWorker) the worker stays like this; its threads are
\* followed step by step where the services and the pool are on their own.
NoWorker ==
    [mThreads |-> <<>>, mPending |-> <<>>, requests |-> <<>>,
     services |-> <<>>, notified |-> <<>>, notifyOne |-> 0,
     dtor |-> "none", joined |-> 0, taken |-> <<>>]

\* the ids of the rows of the sync configs' table
MaxConfigId == 3
ConfigIds == 0..MaxConfigId
\* the tags of the sync configs
MaxConfigTags == 2
ConfigTags == 1..MaxConfigTags
NoConfig == [tag |-> 0, remoteNode |-> "", dbid |-> 0]
\* a row that is not there, and one SyncConfig::unserialize refuses
NoConfigRow == [tag |-> 0, remoteNode |-> ""]
BadConfigRow == [tag |-> 0, remoteNode |-> "?"]
\* MegaClient::syncConfigs where the bag is not looked at: no table could be
\* opened and nothing is held
NoBag ==
    [mTable |-> FALSE, rows |-> [id \in ConfigIds |-> NoConfigRow],
     nextid |-> 0, mSyncConfigs |-> [tag \in ConfigTags |-> NoConfig],
     last |-> [op |-> "none", tag |-> 0, had |-> FALSE, ok |-> FALSE]]

\* Sync::movetolocaldebris where nothing is moved to the debris step by step
NoDebris ==
    [pc |-> "none", i |-> 0, havedir |-> FALSE, localdebris |-> <<>>,
     localpath |-> <<>>, dirs |-> {}, files |-> {}, attempts |-> 0,
     suffixed |-> 0, renamed |-> 0, result |-> FALSE, transient |-> FALSE,
     debris0 |-> <<>>]

FP0 == [size |-> 10, mtime |-> 1000, crc |-> 1, isvalid |-> TRUE]
FP1 == [size |-> 11, mtime |-> 1001, crc |-> 2, isvalid |-> TRUE]
FPs == {FP0, FP1}

RootLocalNode ==
    [NoLocalNode EXCEPT !.live = TRUE, !.type = FOLDERNODE,
                        !.syncedCloudNodeHandle = CloudRoot,
                        !.scanAgain = TREE_ACTION_SUBTREE,
                        !.syncAgain = TREE_ACTION_SUBTREE]

RootCloudNode == [NoCloudNode EXCEPT !.live = TRUE, !.type = FOLDERNODE]

NoFlags == [scansAndMovesComplete |-> FALSE, performedScans |-> FALSE,
            actionedMovesRenames |-> FALSE, scanTargetReachable |-> FALSE]

\* the synced file "a": LocalNode 2, cloud node 2, fsid 7
SyncedLocalNode ==
    [NoLocalNode EXCEPT !.live = TRUE, !.parent = LocalRoot, !.name = "a",
                        !.type = FILENODE, !.fsid = 7,
                        !.syncedCloudNodeHandle = 2, !.fingerprint = FP0,
                        !.dbid = 1]

SyncedCloudNode ==
    [NoCloudNode EXCEPT !.live = TRUE, !.parent = CloudRoot, !.name = "a",
                        !.type = FILENODE, !.fingerprint = FP0]

SyncedEntry ==
    [NoEntry EXCEPT !.exists = TRUE, !.type = FILENODE, !.fsid = 7,
                    !.fingerprint = FP0]

\* The worlds a sync starts in.  The cache holds the file "a" or nothing;
\* while the client was away the filesystem and the cloud may have changed:
\*   "empty"        nothing anywhere
\*   "synced"       "a" in the cache, on disk and in the cloud, all alike
\*   "bothChanged"  "a" changed on disk and in the cloud
\*   "join"         "a" and the folder "b" on disk and in the cloud, alike,
\*                  not in the cache
\*   "pickWinner"   "a" on disk and in the cloud, different, not in the cache
\*   "renamed"      "a" in the cache and the cloud, on disk renamed to "b"
\*   "renamedBoth"  "a" in the cache, on disk renamed to "b", in the cloud
\*                  renamed to "b" and changed
\*   "clash"        "synced", and a second cloud node named "a"
\*   "foldered"     "synced", and the folder "b" in the cache, on disk and
\*                  in the cloud
\*   "folderGone"   "foldered", the folder "b" removed from the disk
\*   "folderOnly"   the folder "b" in the cache, on disk and in the cloud,
\*                  and nothing else
Starts == {"empty", "synced", "bothChanged", "join", "pickWinner", "renamed",
           "renamedBoth", "clash", "foldered", "folderGone", "folderOnly"}

Cached(k) ==
    k \in {"synced", "bothChanged", "renamed", "renamedBoth", "clash", "foldered",
           "folderGone"}

\* the worlds with the folder "b" in the cache
CachedFolder(k) == k \in {"foldered", "folderGone", "folderOnly"}

SyncedFolderNode ==
    [NoLocalNode EXCEPT !.live = TRUE, !.parent = LocalRoot, !.name = "b",
                        !.type = FOLDERNODE, !.fsid = 8,
                        !.syncedCloudNodeHandle = 3, !.dbid = 2]

SyncedCloudFolder ==
    [NoCloudNode EXCEPT !.live = TRUE, !.parent = CloudRoot, !.name = "b",
                        !.type = FOLDERNODE]

SyncedFolderEntry ==
    [NoEntry EXCEPT !.exists = TRUE, !.type = FOLDERNODE, !.fsid = 8]

StartEntry(k, p) ==
    IF k \in {"renamed", "renamedBoth"} /\ p = <<"b">> THEN SyncedEntry
    ELSE IF k \in {"foldered", "join", "folderOnly", "nested"} /\ p = <<"b">>
    THEN SyncedFolderEntry
    ELSE IF k = "nested" /\ p = <<"b", "a">>
    THEN [SyncedFolderEntry EXCEPT !.fsid = 9]
    ELSE IF /\ k \in {"synced", "join", "pickWinner", "clash", "foldered",
                    "folderGone"}
            /\ p = <<"a">>
    THEN SyncedEntry
    ELSE IF k = "bothChanged" /\ p = <<"a">>
    THEN [SyncedEntry EXCEPT !.fingerprint = FP1]
    ELSE NoEntry

StartCloud(k, h) ==
    IF h = CloudRoot THEN RootCloudNode
    ELSE IF h = 2 /\ k \in {"synced", "join", "renamed", "clash", "foldered",
                             "folderGone"}
    THEN SyncedCloudNode
    ELSE IF h = 3 /\ k \in {"foldered", "folderGone", "folderOnly", "join"}
    THEN SyncedCloudFolder
    ELSE IF h = 2 /\ k = "renamedBoth"
    THEN [SyncedCloudNode EXCEPT !.name = "b", !.fingerprint = FP1]
    ELSE IF h = 2 /\ k \in {"bothChanged", "pickWinner"}
    THEN [SyncedCloudNode EXCEPT !.fingerprint = FP1]
    ELSE IF h = 3 /\ k = "clash"
    THEN [SyncedCloudNode EXCEPT !.fingerprint = FP1]
    ELSE NoCloudNode

RecWorldAt(k) ==
    /\ start = k
    /\ lnodes = [i \in NodeIds |->
                    IF i = LocalRoot THEN RootLocalNode
                    ELSE IF Cached(k) /\ i = 2 THEN SyncedLocalNode
                    ELSE IF CachedFolder(k) /\ i = 3 THEN SyncedFolderNode
                    ELSE NoLocalNode]
    /\ cnodes = [h \in Handles |-> StartCloud(k, h)]
    /\ fsidIdx = (IF Cached(k) THEN <<2>> ELSE <<>>)
                 \o (IF CachedFolder(k) THEN <<3>> ELSE <<>>)
    /\ handleIdx = (IF Cached(k) THEN <<2>> ELSE <<>>)
                   \o (IF CachedFolder(k) THEN <<3>> ELSE <<>>)
    /\ fsys = [p \in Paths |-> StartEntry(k, p)]
    /\ notifyq = {}
    /\ mScanRequest = NoRequest
    /\ mSyncFlags = NoFlags
    /\ mFileChangingCheckState = [p \in Paths |-> NoFic]
    /\ insertq = {}
    /\ deleteq = {}
    /\ state = "SYNC_INITIALSCAN"
    /\ ds = ScanDebounceDs
    /\ acts = <<>>
    /\ rowlog = <<>>
    /\ visitlog = <<>>
    /\ trail = <<>>
    /\ statecachetable = TableOf(lnodes)
    /\ cachelog = <<>>
    /\ fsstableids = TRUE
    /\ mWorker = NoWorker
    /\ issued = <<>>
    /\ ub = FALSE
    /\ assertOk = TRUE
    /\ envLeft = EnvBudget

\* the threads that make and destroy scan services
MaxServiceThreads == 2
ServiceThreads == 1..MaxServiceThreads
\* the services a thread makes one after the other
MaxLives == 2
\* ScanService's statics before any service is made (lines 45-47): no
\* service, no worker, the lock free; every thread is outside the
\* constructor and the destructor
NoServices ==
    [mNumServices |-> 0, mWorker |-> FALSE, mWorkerLock |-> 0,
     workers |-> 0,
     threads |-> [t \in ServiceThreads |-> [pc |-> "none", lives |-> 0]]]

RecStartAt(k) ==
    /\ RecWorldAt(k) /\ syncConfigs = NoBag /\ debris = NoDebris
    /\ scanServices = NoServices

RecStart == RecStartAt("synced")

\* computeSyncTriplets is not called on its own while the reconciler runs
TripIdle ==
    /\ tripIn = [cn |-> <<>>, ln |-> <<>>, fsNodes |-> <<>>, ci |-> FALSE]
    /\ tripOut = NoResult

Init == TripIdle /\ \E k \in Starts : RecStartAt(k)

\* the world the variables hold, at the start of a pass
World ==
    [ln |-> lnodes, cn |-> cnodes, fsidIndex |-> fsidIdx,
     handleIndex |-> handleIdx, fs |-> fsys, req |-> mScanRequest,
     flags |-> mSyncFlags, fic |-> mFileChangingCheckState,
     insertq |-> insertq, deleteq |-> deleteq, state |-> state, now |-> ds,
     acts |-> <<>>, log |-> <<>>, visits |-> <<>>, trail |-> <<>>,
     table |-> statecachetable,
     dblog |-> <<>>, fsstableids |-> fsstableids, cur |-> 0,
     reused |-> NoReuse, blocked |-> blockedFlags(NoLocalNode), ub |-> ub,
     assertOk |-> assertOk, overflow |-> FALSE]

\* the variables take the world a step leaves
Becomes(w) ==
    /\ lnodes' = w.ln
    /\ cnodes' = w.cn
    /\ fsidIdx' = w.fsidIndex
    /\ handleIdx' = w.handleIndex
    /\ fsys' = w.fs
    /\ mScanRequest' = w.req
    /\ mSyncFlags' = w.flags
    /\ mFileChangingCheckState' = w.fic
    /\ insertq' = w.insertq
    /\ deleteq' = w.deleteq
    /\ state' = w.state
    /\ ds' = w.now
    /\ acts' = w.acts
    /\ rowlog' = w.log
    /\ visitlog' = w.visits
    /\ trail' = w.trail
    /\ statecachetable' = w.table
    /\ cachelog' = w.dblog
    /\ ub' = w.ub
    /\ assertOk' = w.assertOk
    /\ mWorker' = mWorker
    /\ syncConfigs' = syncConfigs
    /\ debris' = debris
    /\ scanServices' = scanServices

\* Sync::localnodebypath from the root: the node at the path, the deepest
\* node on the way to it, and the length of the path left over
RECURSIVE localnodebypath(_, _, _, _)
localnodebypath(ln, l, path, i) ==
    IF i > Len(path)
    THEN [match |-> l, parent |-> ln[l].parent, left |-> 0]
    ELSE LET next == {c \in Children(ln, l) : ln[c].name = path[i]}
         IN  IF next = {}
             THEN [match |-> 0, parent |-> l, left |-> Len(path) - i + 1]
             ELSE localnodebypath(ln, CHOOSE c \in next : TRUE, path, i + 1)

\* Sync::procscanq: each notified path marks the directory to scan
RECURSIVE procscanq(_, _)
procscanq(ln, q) ==
    IF q = {} THEN ln
    ELSE LET path == CHOOSE p \in q : TRUE
             r == localnodebypath(ln, LocalRoot, path, 1)
             deepest == r.parent
         IN  procscanq(setFutureScan(ln, deepest, TRUE, r.left > 0),
                       q \ {path})

\* the root's row
rootRow == syncRow(CloudRoot, LocalRoot, 0)

Oracles == {[fsFail |-> FALSE, eaccess |-> FALSE],
            [fsFail |-> TRUE, eaccess |-> FALSE],
            [fsFail |-> FALSE, eaccess |-> TRUE]}

\* Sync::changestate
changestate(w, newstate) == [w EXCEPT !.state = newstate]

\* the pass starts: the notifications are taken, and the flags of the last
\* pass decide whether scans and moves are complete
startPass(w, q) ==
    [w EXCEPT
       !.ln = procscanq(@, q),
       !.flags = [scansAndMovesComplete |->
                      /\ ~w.flags.performedScans
                      /\ ~w.flags.actionedMovesRenames,
                  performedScans |-> FALSE,
                  actionedMovesRenames |-> FALSE,
                  scanTargetReachable |-> FALSE]]

\* the pass ends: the initial scan is over once the whole tree is synced,
\* and the cache is written
endPass(r) ==
    cachenodes(IF r.ret THEN changestate(r.w, "SYNC_ACTIVE") ELSE r.w)

\* what one pass of the client's sync loop does to the world
syncPass(w, q, orc) ==
    endPass(recursiveSync(startPass(w, q), rootRow, <<>>, orc))

\* the renames and moves sent to the cloud and the transfers started
Commands == {"setattr", "rename", "startxfer_put", "startxfer_get"}

\* the history of commands, kept up to MaxIssued entries
Issue(history, as) ==
    LET all == history \o SelectSeq(as, LAMBDA x : x.op \in Commands)
    IN  SubSeq(all, 1, IF Len(all) > MaxIssued THEN MaxIssued ELSE Len(all))

\* the pass leaves the world w
PassLeaves(w) ==
    /\ ~w.overflow
    /\ Becomes(w)
    /\ issued' = Issue(issued, w.acts)

\* one pass of the sync loop; nothing runs after undefined behaviour
SyncPass ==
    /\ ~ub
    /\ state \in {"SYNC_INITIALSCAN", "SYNC_ACTIVE"}
    /\ \E orc \in Oracles : PassLeaves(syncPass(World, notifyq, orc))
    /\ notifyq' = {}
    /\ UNCHANGED <<envLeft, start, tripIn, tripOut, fsstableids>>

\* acts, rowlog and visitlog tell of the last pass until anything else
\* happens
Forgotten ==
    /\ acts' = <<>> /\ rowlog' = <<>> /\ visitlog' = <<>> /\ cachelog' = <<>>
    /\ trail' = <<>>
    /\ UNCHANGED <<statecachetable, fsstableids, mWorker, syncConfigs, debris,
                   scanServices>>

(***************************************************************************)
(* The scan worker.                                                        *)
(***************************************************************************)
\* the lambda reuseFingerprint of ScanService::Worker::interrogate
reuseFingerprint(lhs, rhs) ==
    /\ lhs.type = rhs.type
    /\ lhs.fsid = rhs.fsid
    /\ lhs.mtime = rhs.mtime
    /\ rhs.size = rhs.size

\* ScanService::Worker::interrogate of the entry e named `name`
interrogate(e, name, known) ==
    LET result == [name |-> name, type |-> e.type, fsid |-> e.fsid,
                   size |-> e.fingerprint.size, mtime |-> e.fingerprint.mtime,
                   fingerprint |-> NoFingerprint, isSymlink |-> e.isSymlink,
                   isBlocked |-> FALSE]
        old == {k \in known : k.name = name /\ reuseFingerprint(k, result)}
    IN  IF e.isBlocked
        THEN [NoFSNode EXCEPT !.name = name, !.isBlocked = TRUE]
        ELSE IF e.type = FOLDERNODE THEN result
        ELSE IF old # {}
        THEN [result EXCEPT !.fingerprint = (CHOOSE k \in old : TRUE).fingerprint]
        ELSE [result EXCEPT !.fingerprint = e.fingerprint]

\* ScanService::Worker::scan: the entries of the request's directory,
\* nothing for the debris, and nothing for a target that is not there, is
\* not a directory or cannot be opened
scanResults(fs, request) ==
    LET names == {x \in Listing(fs, request.path) :
                     ~inDebris(Append(request.path, x))}
        order == SortSet(names, [x \in names |-> NameOrd(x)])
    IN  IF inDebris(request.path) THEN <<>>
        ELSE Vector([i \in DOMAIN order |->
                        interrogate(fs[Append(request.path, order[i])],
                                    order[i], request.known)])

\* ScanService::Worker::loop: the worker takes the queued request, scans
\* and marks the request complete
ScanWorker ==
    /\ mScanRequest.active /\ mScanRequest.queued
    /\ mScanRequest' = [mScanRequest EXCEPT
                          !.queued = FALSE,
                          !.completed = TRUE,
                          !.results = scanResults(fsys, mScanRequest)]
    /\ Forgotten
    /\ UNCHANGED <<tripIn, tripOut, lnodes, cnodes, fsidIdx, handleIdx, fsys,
                   notifyq, mSyncFlags, mFileChangingCheckState, insertq,
                   deleteq, state, ds, ub, assertOk, envLeft, issued, start>>

(***************************************************************************)
(* Time, and the sync's state.                                             *)
(***************************************************************************)
\* something waits for the clock: a directory for its scan debounce, a
\* back-off timer, or a file that was seen changing
Waiting ==
    \/ \E i \in NodeIds :
          /\ lnodes[i].live
          /\ \/ /\ lnodes[i].scanAgain >= TREE_ACTION_HERE
                /\ ds - lnodes[i].lastScanTime < ScanDebounceDs
             \/ lnodes[i].useBlockedTimer = "counting"
             \/ lnodes[i].scanBlockedTimer = "counting"
    \/ \E p \in Paths : mFileChangingCheckState[p] # NoFic

\* a tick of the clock; the back-off timers that were counting are armed
Tick ==
    /\ Waiting
    /\ ds < ScanDebounceDs + MaxTicks * TickDs
    /\ ds' = ds + TickDs
    /\ lnodes' = [i \in DOMAIN lnodes |->
                    [lnodes[i] EXCEPT
                       !.useBlockedTimer =
                           IF @ = "counting" THEN "armed" ELSE @,
                       !.scanBlockedTimer =
                           IF @ = "counting" THEN "armed" ELSE @]]
    /\ Forgotten
    /\ UNCHANGED <<tripIn, tripOut, cnodes, fsidIdx, handleIdx, fsys, notifyq,
                   mScanRequest, mSyncFlags, mFileChangingCheckState, insertq,
                   deleteq, state, ub, assertOk, envLeft, issued, start>>

(***************************************************************************)
(* The outside: the user's changes to the filesystem, other clients'       *)
(* changes to the cloud, and the action packets of the sync's own          *)
(* commands.                                                               *)
(***************************************************************************)
Kinds == {"file", "folder", "symlink", "blocked"}

newEntry(kind, fp, fsid) ==
    [exists |-> TRUE,
     type |-> IF kind = "folder" THEN FOLDERNODE ELSE FILENODE,
     fsid |-> fsid,
     fingerprint |-> IF kind = "folder" THEN NoFingerprint ELSE fp,
     isSymlink |-> kind = "symlink", isBlocked |-> kind = "blocked"]

\* folders are made at the top of the tree only, and renamed while empty
FsChange(fs) ==
    /\ envLeft > 0
    /\ envLeft' = envLeft - 1
    /\ fsys' = fs
    /\ issued' = <<>>
    /\ Forgotten
    /\ UNCHANGED <<tripIn, tripOut, lnodes, cnodes, fsidIdx, handleIdx,
                   mScanRequest, mSyncFlags, mFileChangingCheckState, insertq,
                   deleteq, state, ds, ub, assertOk, start>>

FsCreate ==
    \E p \in Paths, kind \in Kinds, fp \in FPs :
        /\ canMkdir(fsys, p)
        /\ kind = "folder" => Len(p) = 1
        /\ kind # "file" => fp = FP0
        /\ FsChange([fsys EXCEPT ![p] = newEntry(kind, fp, newFsid(fsys))])
        /\ notifyq' = notifyq \cup {p}

FsRemove ==
    \E p \in Paths :
        /\ fsys[p].exists
        /\ FsChange(RemoveTree(fsys, p))
        /\ notifyq' = notifyq \cup {p}

FsRename ==
    \E p \in Paths, q \in Paths :
        /\ canRename(fsys, p, q)
        /\ ~fsys[q].exists
        /\ fsys[p].type = FOLDERNODE => Len(q) = 1 /\ Listing(fsys, p) = {}
        /\ FsChange(MoveTree(fsys, p, q))
        /\ notifyq' = notifyq \cup {p, q}

FsModify ==
    \E p \in Paths, fp \in FPs :
        /\ fopen(fsys, p)
        /\ fsys[p].fingerprint # fp
        /\ FsChange([fsys EXCEPT ![p].fingerprint = fp])
        /\ notifyq' = notifyq \cup {p}

\* the cloud folders other clients put nodes in: the root and its folders
CloudFolders ==
    {CloudRoot} \cup {h \in Handles : /\ cnodes[h].live
                                      /\ cnodes[h].type = FOLDERNODE
                                      /\ cnodes[h].parent = CloudRoot}

\* nodes in the synced cloud tree other than its root
CloudTree ==
    {h \in Handles : cnodes[h].live /\ cnodes[h].parent \in CloudFolders}

\* a change of the cloud tree reaches the client: the tree is to be synced
CloudChange(cn) ==
    /\ cnodes' = cn
    /\ lnodes' = setFutureSync(lnodes, LocalRoot, TRUE, TRUE)
    /\ Forgotten
    /\ UNCHANGED <<tripIn, tripOut, fsidIdx, handleIdx, fsys, notifyq,
                   mScanRequest, mSyncFlags, mFileChangingCheckState, insertq,
                   deleteq, state, ds, ub, assertOk, start>>

\* a change another client makes
Spend == envLeft > 0 /\ envLeft' = envLeft - 1 /\ issued' = <<>>

CloudAdd ==
    \E h \in Handles, to \in CloudFolders, name \in WNames,
       type \in {FILENODE, FOLDERNODE}, fp \in FPs :
        /\ ~cnodes[h].live
        /\ \A g \in Handles : ~cnodes[g].live => h <= g
        /\ type = FOLDERNODE => to = CloudRoot /\ fp = FP0
        /\ Spend
        /\ CloudChange([cnodes EXCEPT ![h] =
              [NoCloudNode EXCEPT
                 !.live = TRUE, !.parent = to, !.name = name, !.type = type,
                 !.fingerprint = IF type = FILENODE THEN fp
                                 ELSE NoFingerprint]])

CloudRemove ==
    \E h \in CloudTree :
        /\ Spend
        /\ CloudChange([g \in Handles |->
              IF g = h \/ cnodes[g].parent = h THEN NoCloudNode
              ELSE cnodes[g]])

CloudRename ==
    \E h \in CloudTree, name \in WNames :
        /\ cnodes[h].name # name
        /\ Spend
        /\ CloudChange([cnodes EXCEPT ![h].name = name])

CloudModify ==
    \E h \in CloudTree, fp \in FPs :
        /\ cnodes[h].type = FILENODE
        /\ cnodes[h].fingerprint # fp
        /\ Spend
        /\ CloudChange([cnodes EXCEPT ![h].fingerprint = fp])

CloudMove ==
    \E h \in CloudTree, to \in CloudFolders :
        /\ cnodes[h].type = FILENODE
        /\ cnodes[h].parent # to
        /\ Spend
        /\ CloudChange([cnodes EXCEPT ![h].parent = to])

\* the action packet of the first command queued on node h
applyCommand(n) ==
    LET c == n.mPendingChanges[1]
    IN  [n EXCEPT !.mPendingChanges = Tail(@),
                  !.name = IF c.name # "" THEN c.name ELSE @,
                  !.parent = IF c.cmd = "rename" THEN c.to ELSE @]

ActionPacket ==
    \E h \in Handles :
        /\ cnodes[h].live
        /\ cnodes[h].mPendingChanges # <<>>
        /\ CloudChange([cnodes EXCEPT ![h] = applyCommand(@)])
        /\ UNCHANGED <<envLeft, issued>>

\* the action packet of a move to the cloud debris
DebrisPacket ==
    \E h \in Handles :
        /\ cnodes[h].live
        /\ cnodes[h].syncdeleted
        /\ CloudChange([cnodes EXCEPT ![h].syncdeleted = FALSE,
                                      ![h].parent = Elsewhere])
        /\ UNCHANGED <<envLeft, issued>>

Next ==
    \/ SyncPass
    \/ ScanWorker
    \/ Tick
    \/ FsCreate
    \/ FsRemove
    \/ FsRename
    \/ FsModify
    \/ CloudAdd
    \/ CloudRemove
    \/ CloudRename
    \/ CloudModify
    \/ CloudMove
    \/ ActionPacket
    \/ DebrisPacket

Spec == Init /\ [][Next]_vars

\* the sync of a new local folder b that holds a folder a: nothing is in the
\* state cache and nothing in the cloud; the user may remove a folder
NestedInit == TripIdle /\ RecStartAt("nested")

NestedNext ==
    \/ SyncPass
    \/ ScanWorker
    \/ Tick
    \/ FsRemove

SpecNested == NestedInit /\ [][NestedNext]_vars

(***************************************************************************)
(* computeSyncTriplets over the directories a sync can meet: LocalNode     *)
(* children have distinct names (LocalNode::children is a map by name), a  *)
(* directory listing has distinct names, cloud children may share a name.  *)
(***************************************************************************)
TripLocalNodes ==
    UNION {{f \in [1..n -> [name : Names, fsid : {UNDEF, 7},
                            syncedCloudNodeHandle : {UNDEF, 1}]] :
                /\ \A i, j \in 1..n : i < j => NameOrd(f[i].name) < NameOrd(f[j].name)
                /\ \A i \in 1..n : (f[i].fsid = UNDEF) = (f[i].syncedCloudNodeHandle = UNDEF)}
           : n \in 0..MaxLocalIn}

TripCloudNodes ==
    UNION {[1..n -> [name : Names]] : n \in 0..MaxCloudIn}

TripFsNodes ==
    UNION {{f \in [1..n -> [name : Names, fsid : {7, 8}]] :
                \A i, j \in 1..n : i # j => f[i].name # f[j].name}
           : n \in 0..MaxFsIn}

TripInit ==
    /\ tripIn \in [cn : TripCloudNodes, ln : TripLocalNodes, fsNodes : TripFsNodes,
                   ci : BOOLEAN]
    \* a volume holds no two entries whose names it takes for the same
    /\ \A i, j \in DOMAIN tripIn.fsNodes :
          i # j => fsCompare(tripIn.fsNodes[i].name, tripIn.fsNodes[j].name,
                             tripIn.ci) # 0
    /\ tripOut = NoResult
    /\ RecStart

ComputeTriplets ==
    /\ ~tripOut.called
    /\ \E flip \in BOOLEAN :
         LET r == computeSyncTriplets(DOMAIN tripIn.cn, tripIn.cn,
                                      DOMAIN tripIn.ln, tripIn.ln,
                                      tripIn.fsNodes, tripIn.ci, flip)
         IN  tripOut' = [rows |-> r.rows, fsNodes |-> r.fsNodes,
                         assertOk |-> r.assertOk, ub |-> r.ub, called |-> TRUE]
    /\ UNCHANGED tripIn
    /\ UNCHANGED recVars

TripNext == ComputeTriplets

SpecTriplets == TripInit /\ [][TripNext]_vars

(***************************************************************************)
(* The scan service on its own: scans are asked for of any path, the       *)
(* debris included, while the user changes the filesystem.                 *)
(***************************************************************************)
\* the paths a scan is asked for
ScanTargets == {<<>>} \cup Paths \cup {localdebris, Append(localdebris, "a")}

\* ScanService::scan(target, targetPath), called for a directory's LocalNode
ScanRequested ==
    \E n \in NodeIds, targetPath \in ScanTargets :
        /\ lnodes[n].live /\ lnodes[n].type = FOLDERNODE
        /\ ~mScanRequest.active
        /\ mScanRequest' = scan(World, n, targetPath)
        /\ Forgotten
        /\ UNCHANGED <<tripIn, tripOut, lnodes, cnodes, fsidIdx, handleIdx,
                       fsys, notifyq, mSyncFlags, mFileChangingCheckState,
                       insertq, deleteq, state, ds, ub, assertOk, envLeft,
                       issued, start>>

\* the user takes away the right to read a folder: it is there, but it
\* cannot be opened
FsBlock ==
    \E p \in Paths :
        /\ fsys[p].exists /\ fsys[p].type = FOLDERNODE /\ ~fsys[p].isBlocked
        /\ FsChange([fsys EXCEPT ![p].isBlocked = TRUE])
        /\ notifyq' = notifyq \cup {p}

\* a file written again within the second of its modification time: its
\* size changes (FP2), or its content alone (FP3)
FP2 == [size |-> 11, mtime |-> 1000, crc |-> 3, isvalid |-> TRUE]
FP3 == [size |-> 10, mtime |-> 1000, crc |-> 4, isvalid |-> TRUE]

FsRewrite ==
    \E p \in Paths, fp \in {FP2, FP3} :
        /\ fopen(fsys, p)
        /\ fsys[p].fingerprint.mtime = fp.mtime
        /\ fsys[p].fingerprint # fp
        /\ FsChange([fsys EXCEPT ![p].fingerprint = fp])
        /\ notifyq' = notifyq \cup {p}

\* line 1856: the owner of a completed request lets go of it
ScanTaken ==
    /\ mScanRequest.active /\ mScanRequest.completed
    /\ mScanRequest' = NoRequest
    /\ Forgotten
    /\ UNCHANGED <<tripIn, tripOut, lnodes, cnodes, fsidIdx, handleIdx, fsys,
                   notifyq, mSyncFlags, mFileChangingCheckState, insertq,
                   deleteq, state, ds, ub, assertOk, envLeft, issued, start>>

ScanNext ==
    \/ ScanRequested
    \/ ScanWorker
    \/ ScanTaken
    \/ FsCreate
    \/ FsRemove
    \/ FsRename
    \/ FsModify
    \/ FsRewrite
    \/ FsBlock

SpecScan == Init /\ [][ScanNext]_vars

(***************************************************************************)
(* The scan services and their worker, thread by thread.  A step is what   *)
(* one thread does between two points where another thread can see or     *)
(* change what it shares: mPending is read and written under mPendingLock, *)
(* a request's mComplete is atomic.                                        *)
(***************************************************************************)
\* the threads of a worker
MaxThreads == 2
\* the requests the services make
MaxRequests == 2
\* the services (one for each client) of the process
MaxServices == 2

\* a thread of the worker at the top of ScanService::Worker::loop
NoThread == [pc |-> "wait", request |-> 0]

\* ScanService::Worker::Worker(numThreads)
Worker(w, numThreads) ==
    [w EXCEPT !.mThreads = [t \in 1..numThreads |-> NoThread]]

\* what loop does with a request it took, in order: scan(request),
\* mComplete = true, the cookie (lines 221-245); first with the request
\* marked complete before it is scanned
loopOrderCompleteFirst == <<"complete", "scan", "cookie">>

loopOrder == <<"scan", "complete", "cookie">>

\* the step of loop after the step pc
loopAfter(pc) ==
    LET i == CHOOSE j \in DOMAIN loopOrder : loopOrder[j] = pc
    IN  IF i = Len(loopOrder) THEN "wait" ELSE loopOrder[i + 1]

\* lines 207-211: mPending when a thread has seen the sentinel at its
\* front; first with the sentinel taken from the queue
sentinelSeenAndTaken(mPending) == Tail(mPending)

sentinelSeen(mPending) == mPending

\* line 212: mPending.pop_front(); first with the request left in the queue
popFrontNot(mPending) == mPending

popFront(mPending) == Tail(mPending)

\* the directories the services ask scans of: the root, the folder "b" and
\* the debris
PoolTargets ==
    {[n |-> LocalRoot, path |-> <<>>], [n |-> 3, path |-> <<"b">>],
     [n |-> LocalRoot, path |-> localdebris]}

\* the services that are there
LiveServices(w) == {s \in DOMAIN w.services : w.services[s] = "alive"}

\* the rest of a pool step: nothing but the worker changes
PoolLeaves(w) ==
    /\ mWorker' = w
    /\ acts' = <<>> /\ rowlog' = <<>> /\ visitlog' = <<>> /\ cachelog' = <<>>
    /\ trail' = <<>>
    /\ UNCHANGED <<tripIn, tripOut, lnodes, cnodes, fsidIdx, handleIdx, fsys,
                   notifyq, mScanRequest, mSyncFlags, mFileChangingCheckState,
                   insertq, deleteq, state, ds, statecachetable, fsstableids,
                   syncConfigs, debris, scanServices, ub, assertOk, envLeft,
                   issued, start>>

\* ScanService::ScanService: the first service makes the worker
ServiceMade ==
    \E numThreads \in 1..MaxThreads :
        /\ mWorker.dtor = "none"
        /\ Len(mWorker.services) < MaxServices
        /\ LiveServices(mWorker) = {} => mWorker.services = <<>>
        /\ LiveServices(mWorker) # {} => numThreads = Len(mWorker.mThreads)
        /\ PoolLeaves([(IF LiveServices(mWorker) = {}
                        THEN Worker(mWorker, numThreads) ELSE mWorker)
                       EXCEPT !.services = Append(@, "alive"),
                              !.notified = Append(@, 0)])

\* ScanService::scan and Worker::queue up to the end of its lock; the
\* notify_one is owed
ServiceScan ==
    \E s \in LiveServices(mWorker), target \in PoolTargets :
        LET request == scan(World, target.n, target.path)
            id == Len(mWorker.requests) + 1
        IN  /\ mWorker.dtor = "none"
            /\ Len(mWorker.requests) < MaxRequests
            /\ PoolLeaves(
                 [mWorker EXCEPT
                    !.requests = Append(@, [mCookie |-> s, req |-> request,
                                            read |-> FALSE,
                                            results |-> <<>>]),
                    !.mPending = IF request.queued THEN Append(@, id) ELSE @,
                    !.notifyOne = IF request.queued THEN @ + 1 ELSE @])

\* mPendingNotifier.notify_one() of Worker::queue: one of the threads that
\* wait is woken, if any waits
NotifyOne ==
    /\ mWorker.notifyOne > 0
    /\ LET asleep == {t \in DOMAIN mWorker.mThreads :
                         mWorker.mThreads[t].pc = "asleep"}
       IN  \/ /\ asleep = {}
              /\ PoolLeaves([mWorker EXCEPT !.notifyOne = @ - 1])
           \/ \E t \in asleep :
                 PoolLeaves([mWorker EXCEPT !.notifyOne = @ - 1,
                                            !.mThreads[t].pc = "wait"])

\* lines 200-214: with the lock, the thread waits if nothing is pending,
\* returns if the sentinel is at the front, and else takes the request at
\* the front
LoopWait(t) ==
    /\ mWorker.mThreads[t].pc = "wait"
    /\ PoolLeaves(
         IF mWorker.mPending = <<>>
         THEN [mWorker EXCEPT !.mThreads[t].pc = "asleep"]
         ELSE IF Head(mWorker.mPending) = 0
         THEN [mWorker EXCEPT !.mThreads[t].pc = "returned",
                              !.mPending = sentinelSeen(@)]
         ELSE [mWorker EXCEPT !.mThreads[t] =
                                  [pc |-> loopOrder[1],
                                   request |-> Head(mWorker.mPending)],
                              !.taken = Append(@, Head(mWorker.mPending)),
                              !.mPending = popFront(@)])

\* line 221, Worker::scan: the results are published and mKnown is cleared
\* unless the scan returned before line 368
LoopScan(t) ==
    LET r == mWorker.mThreads[t].request
        request == mWorker.requests[r].req
        iterated ==
            /\ ~inDebris(request.path)
            /\ \/ request.path = <<>>
               \/ /\ FsAt(fsys, request.path).exists
                  /\ FsAt(fsys, request.path).type = FOLDERNODE
                  /\ ~FsAt(fsys, request.path).isBlocked
    IN  /\ mWorker.mThreads[t].pc = "scan"
        /\ PoolLeaves(
             [mWorker EXCEPT
                !.mThreads[t].pc = loopAfter("scan"),
                !.requests[r].req =
                    IF iterated
                    THEN [request EXCEPT !.known = {},
                                         !.results = scanResults(fsys, request)]
                    ELSE request])

\* line 224: request->mComplete = true
LoopComplete(t) ==
    LET r == mWorker.mThreads[t].request
    IN  /\ mWorker.mThreads[t].pc = "complete"
        /\ PoolLeaves([mWorker EXCEPT
                         !.mThreads[t].pc = loopAfter("complete"),
                         !.requests[r].req.queued = FALSE,
                         !.requests[r].req.completed = TRUE])

\* lines 229-245: the cookie is told if it is still there
LoopCookie(t) ==
    LET r == mWorker.mThreads[t].request
        s == mWorker.requests[r].mCookie
    IN  /\ mWorker.mThreads[t].pc = "cookie"
        /\ PoolLeaves([mWorker EXCEPT
                         !.mThreads[t] = [pc |-> loopAfter("cookie"),
                                          request |-> 0],
                         !.notified[s] =
                             IF mWorker.services[s] = "alive" THEN @ + 1
                             ELSE @])

\* line 1849-1853: the owner sees completed() and copies results()
ResultsRead ==
    \E r \in DOMAIN mWorker.requests :
        /\ mWorker.requests[r].req.completed
        /\ ~mWorker.requests[r].read
        /\ mWorker.services[mWorker.requests[r].mCookie] = "alive"
        /\ mWorker.dtor = "none"
        /\ PoolLeaves([mWorker EXCEPT
                         !.requests[r].read = TRUE,
                         !.requests[r].results =
                             mWorker.requests[r].req.results])

\* ScanService::~ScanService of a service that is not the last: its cookie
\* goes with it
ServiceGone ==
    \E s \in LiveServices(mWorker) :
        /\ mWorker.dtor = "none"
        /\ LiveServices(mWorker) # {s}
        /\ PoolLeaves([mWorker EXCEPT !.services[s] = "gone"])

\* ScanService::~ScanService of the last service calls mWorker.reset();
\* Worker::~Worker queues the sentinel (lines 158-162).  The services that
\* are gone have returned from their calls of Worker::queue, and this one
\* is not inside one.
DtorSentinel ==
    \E s \in LiveServices(mWorker) :
        /\ mWorker.dtor = "none"
        /\ mWorker.notifyOne = 0
        /\ LiveServices(mWorker) = {s}
        /\ PoolLeaves([mWorker EXCEPT !.dtor = "notify",
                                      !.mPending = Append(@, 0)])

\* line 165: mPendingNotifier.notify_all()
DtorNotify ==
    /\ mWorker.dtor = "notify"
    /\ PoolLeaves(
         [mWorker EXCEPT
            !.dtor = "join",
            !.mThreads = [t \in DOMAIN @ |->
                             IF @[t].pc = "asleep"
                             THEN [@[t] EXCEPT !.pc = "wait"] ELSE @[t]]])

\* lines 170-173: the threads are joined in their order; then the service's
\* members, its cookie among them, are destroyed
DtorJoin ==
    /\ mWorker.dtor = "join"
    /\ IF mWorker.joined = Len(mWorker.mThreads)
       THEN PoolLeaves([mWorker EXCEPT
                          !.dtor = "done",
                          !.services = [s \in DOMAIN @ |-> "gone"]])
       ELSE /\ mWorker.mThreads[mWorker.joined + 1].pc = "returned"
            /\ PoolLeaves([mWorker EXCEPT !.joined = @ + 1])

PoolInit ==
    /\ TripIdle
    /\ \E k \in {"foldered", "folderGone"} : RecStartAt(k)

PoolThreads == 1..MaxThreads

PoolNext ==
    \/ ServiceMade
    \/ ServiceScan
    \/ NotifyOne
    \/ \E t \in DOMAIN mWorker.mThreads : LoopWait(t)
    \/ \E t \in DOMAIN mWorker.mThreads : LoopScan(t)
    \/ \E t \in DOMAIN mWorker.mThreads : LoopComplete(t)
    \/ \E t \in DOMAIN mWorker.mThreads : LoopCookie(t)
    \/ ResultsRead
    \/ ServiceGone
    \/ DtorSentinel
    \/ DtorNotify
    \/ DtorJoin

SpecPool == PoolInit /\ [][PoolNext]_vars

\* the steps of the thread t of the worker
Loop(t) ==
    /\ t \in DOMAIN mWorker.mThreads
    /\ LoopWait(t) \/ LoopScan(t) \/ LoopComplete(t) \/ LoopCookie(t)

\* The worker of one service from its construction to its destruction.
\* Every thread of the worker goes on while it can, and so does the thread
\* that is inside Worker::queue or Worker::~Worker.
DestroyInit == TripIdle /\ RecStartAt("foldered")

DestroyNext ==
    \/ LiveServices(mWorker) = {} /\ ServiceMade
    \/ ServiceScan
    \/ NotifyOne
    \/ \E t \in DOMAIN mWorker.mThreads : LoopWait(t)
    \/ \E t \in DOMAIN mWorker.mThreads : LoopScan(t)
    \/ \E t \in DOMAIN mWorker.mThreads : LoopComplete(t)
    \/ \E t \in DOMAIN mWorker.mThreads : LoopCookie(t)
    \/ DtorSentinel
    \/ DtorNotify
    \/ DtorJoin

PoolFair ==
    /\ \A t \in PoolThreads : WF_mWorker(Loop(t))
    /\ WF_mWorker(NotifyOne \/ DtorNotify \/ DtorJoin)

SpecDestroy == DestroyInit /\ [][DestroyNext]_vars /\ PoolFair

(***************************************************************************)
(* The state cache.  The sync's LocalNodes are made, changed and destroyed *)
(* as the passes do it, the client ticks the cache, the sync changes state *)
(* and is destroyed, and a new Sync reads the table back.                  *)
(***************************************************************************)
\* the rows a table has held
MaxCacheRows == 3
\* the LocalNodes below the root of a sync whose cache is watched
MaxCacheNodes == 2
\* the depth readstatecache gives addstatecachechildren (line 803)
StateCacheMaxDepth == 100

SyncStates == {"SYNC_INITIALSCAN", "SYNC_ACTIVE", "SYNC_CANCELED",
               "SYNC_FAILED", "SYNC_DISABLED"}
TerminalStates == {"SYNC_CANCELED", "SYNC_FAILED", "SYNC_DISABLED"}

\* line 714 with the row's fsid never taken
restoredFsidNever(w, row) == UNDEF

\* line 714: the row's fsid is taken when the filesystem's ids are stable
restoredFsid(w, row) == IF w.fsstableids THEN row.fsid ELSE UNDEF

\* lines 705-776: the rows whose parent_dbid is parent_dbid are attached
\* under p, each followed by its own children; ids is what the loop has
\* still to see, in the order of the multimap
RECURSIVE addstatecachechildrenLoop(_, _, _, _, _)
addstatecachechildrenLoop(w, ids, localpath, p, maxdepth) ==
    IF ids = {} THEN w
    ELSE LET id == CHOOSE x \in ids : \A y \in ids : x <= y
             row == w.table.rows[id]
             l == newLocalNode(w)
             fsid == restoredFsid(w, row)
             w1 == init(w, l, row.type, p, Append(localpath, row.name),
                        row.fingerprint)
             w2 == setfsid([w1 EXCEPT !.ln[l].dbid = id], l, fsid)
             w3 == setSyncedNodeHandle(w2, l, row.syncedCloudNodeHandle)
             w4 == [w3 EXCEPT !.ln[p].assigned = @ /\ fsid # UNDEF]
             w5 == IF ~row.slocalname_in_db THEN statecacheadd(w4, l) ELSE w4
             below == {x \in DOMAIN w.table.rows :
                          w.table.rows[x].parent_dbid = id}
             w6 == IF maxdepth # 0
                   THEN addstatecachechildrenLoop(
                            w5, below, Append(localpath, row.name), l,
                            maxdepth - 1)
                   ELSE w5
         IN  IF l = 0 THEN [w EXCEPT !.overflow = TRUE]
             ELSE addstatecachechildrenLoop(w6, ids \ {id}, localpath, p,
                                            maxdepth)

\* Sync::addstatecachechildren
addstatecachechildren(w, parent_dbid, localpath, p, maxdepth) ==
    addstatecachechildrenLoop(
        w, {x \in DOMAIN w.table.rows :
               w.table.rows[x].parent_dbid = parent_dbid},
        localpath, p, maxdepth)

\* Sync::readstatecache
readstatecache(w) ==
    IF w.table.present /\ w.state = "SYNC_INITIALSCAN"
    THEN cachenodes(addstatecachechildren(w, 0, <<>>, LocalRoot,
                                          StateCacheMaxDepth))
    ELSE w

\* a step of the state cache leaves the world w
CacheLeaves(w) ==
    /\ ~w.overflow
    /\ Becomes(w)
    /\ UNCHANGED <<tripIn, tripOut, notifyq, envLeft, issued, start>>

\* the sync is there: its root is
SyncLives == lnodes[LocalRoot].live

\* the passes run while the sync is scanning or active
SyncRuns == SyncLives /\ state \in {"SYNC_INITIALSCAN", "SYNC_ACTIVE"}

\* Sync::changestate, called by the client
Changestate ==
    \E newstate \in SyncStates :
        /\ SyncLives
        /\ newstate # state
        /\ CacheLeaves(changestate(World, newstate))
        /\ UNCHANGED fsstableids

\* lines 2302-2322: a pass makes a LocalNode from a filesystem entry and
\* queues it
MakeSyncNode ==
    \E p \in NodeIds, name \in WNames, type \in {FILENODE, FOLDERNODE} :
        /\ SyncRuns
        /\ lnodes[p].live /\ lnodes[p].type = FOLDERNODE
        /\ \A c \in Children(lnodes, p) : lnodes[c].name # name
        /\ newLocalNode(World) # 0
        /\ Cardinality({i \in NodeIds : lnodes[i].live /\ i # LocalRoot})
             < MaxCacheNodes
        /\ statecachetable.nextid
             + Cardinality({i \in NodeIds : /\ lnodes[i].live
                                            /\ i # LocalRoot
                                            /\ lnodes[i].dbid = 0})
             < MaxCacheRows
        /\ LET l == newLocalNode(World)
               w1 == init(World, l, type, p,
                          Append(getLocalPath(lnodes, p), name),
                          IF type = FILENODE THEN FP0 ELSE NoFingerprint)
               w2 == setfsid(w1, l, IF type = FILENODE THEN 7 ELSE 8)
           IN  CacheLeaves(statecacheadd(w2, l))
        /\ UNCHANGED fsstableids

\* lines 2180-2189: a pass gives a LocalNode its cloud node's handle and
\* queues it
SyncNodeUpdated ==
    \E l \in NodeIds \ {LocalRoot} :
        /\ SyncRuns
        /\ lnodes[l].live
        /\ lnodes[l].syncedCloudNodeHandle = UNDEF
        /\ CacheLeaves(statecacheadd(setSyncedNodeHandle(World, l, 2), l))
        /\ UNCHANGED fsstableids

\* resolve_delSyncNode: a pass destroys a LocalNode and what is below it
DelSyncNode ==
    \E l \in NodeIds \ {LocalRoot} :
        /\ SyncRuns
        /\ lnodes[l].live
        /\ CacheLeaves(deleteLocalNode(World, l))
        /\ UNCHANGED fsstableids

\* the client's call of Sync::cachenodes
Cachenodes ==
    /\ SyncLives
    /\ CacheLeaves(cachenodes(World))
    /\ UNCHANGED fsstableids

\* Sync::~Sync (lines 665-696): the table is closed and the LocalNodes are
\* destroyed, each calling statecachedel.  What the dying sync's queues
\* held last stays to be seen.
DestroySync ==
    /\ SyncLives
    /\ state \in TerminalStates
    /\ CacheLeaves(deleteNodes([World EXCEPT !.table.present = FALSE],
                               Subtree(lnodes, LocalRoot)))
    /\ UNCHANGED fsstableids

\* Sync::Sync (lines 548-663): a new sync over the same root, with or
\* without a database, reads the state cache
NewSync ==
    \E stable \in BOOLEAN, db \in BOOLEAN :
        /\ ~SyncLives
        /\ fsstableids' = stable
        /\ CacheLeaves(readstatecache(
               [World EXCEPT !.ln[LocalRoot] = RootLocalNode,
                             !.insertq = {}, !.deleteq = {},
                             !.state = "SYNC_INITIALSCAN",
                             !.fsstableids = stable,
                             !.table.present = db]))

CacheInit == TripIdle /\ \E k \in {"empty", "foldered"} : RecStartAt(k)

CacheNext ==
    \/ Changestate
    \/ MakeSyncNode
    \/ SyncNodeUpdated
    \/ DelSyncNode
    \/ Cachenodes
    \/ DestroySync
    \/ NewSync

SpecCache == CacheInit /\ [][CacheNext]_vars

\* the queues under every order of calls: statecacheadd and statecachedel
\* are public members of Sync, and a caller hands them any LocalNode of the
\* sync below its root, in any state of the sync
CallStatecacheadd ==
    \E l \in NodeIds \ {LocalRoot} :
        /\ SyncLives
        /\ lnodes[l].live
        /\ CacheLeaves(statecacheadd(World, l))
        /\ UNCHANGED fsstableids

CallStatecachedel ==
    \E l \in NodeIds \ {LocalRoot} :
        /\ SyncLives
        /\ lnodes[l].live
        /\ CacheLeaves(statecachedel(World, l))
        /\ UNCHANGED fsstableids

QueuesInit == CacheInit

QueuesNext ==
    \/ CallStatecacheadd
    \/ CallStatecachedel
    \/ Cachenodes
    \/ Changestate
    \/ MakeSyncNode

SpecQueues == QueuesInit /\ [][QueuesNext]_vars

(***************************************************************************)
(* The sync configs.  SyncConfigBag holds the configs by tag and writes    *)
(* each to a row of its table; a new bag reads the rows back.  DbTable and *)
(* SyncConfig::serialize are not part of sync.cpp: put writes or replaces  *)
(* a row unless it fails, del removes one, truncate removes all, and a     *)
(* table just opened has nextid 0.                                         *)
(***************************************************************************)
\* SyncConfig::serialize
serializeConfig(c) == [tag |-> c.tag, remoteNode |-> c.remoteNode]

\* SyncConfig::unserialize gives a config
unserialized(row) == row.tag \in ConfigTags

\* the constructor's ++mTable->nextid, and a constructor without it
firstFreeIdSame(nextid) == nextid
firstFreeId(nextid) == nextid + 1

\* the constructor's loop over the rows from `id` on: b is what the bag
\* holds and the table's nextid so far
RECURSIVE loadConfigs(_, _, _)
loadConfigs(rows, id, b) ==
    IF id > MaxConfigId THEN b
    ELSE IF rows[id] = NoConfigRow \/ ~unserialized(rows[id])
    THEN loadConfigs(rows, id + 1, b)
    ELSE LET tag == rows[id].tag
             c == [tag |-> tag, remoteNode |-> rows[id].remoteNode,
                   dbid |-> id]
         IN  loadConfigs(rows, id + 1,
                [mSyncConfigs |->
                    IF b.mSyncConfigs[tag] = NoConfig
                    THEN [b.mSyncConfigs EXCEPT ![tag] = c]
                    ELSE b.mSyncConfigs,
                 nextid |-> IF id > b.nextid THEN id ELSE b.nextid])

\* SyncConfigBag::SyncConfigBag over the rows the table holds; `opened`
\* tells whether DbAccess::open gave a table
SyncConfigBag(rows, opened) ==
    IF ~opened THEN [NoBag EXCEPT !.rows = rows]
    ELSE LET b == loadConfigs(rows, 0,
                     [mSyncConfigs |-> NoBag.mSyncConfigs, nextid |-> 0])
         IN  [mTable |-> TRUE, rows |-> rows,
              nextid |-> firstFreeId(b.nextid),
              mSyncConfigs |-> b.mSyncConfigs, last |-> NoBag.last]

\* SyncConfigBag::get
getConfig(bag, tag) == bag.mSyncConfigs[tag]

\* SyncConfigBag::insert; putOk tells whether DbTable::put succeeds
insertConfig(bag, syncConfig, putOk) ==
    LET tag == syncConfig.tag IN
    IF getConfig(bag, tag) = NoConfig
    THEN IF bag.mTable /\ ~putOk THEN bag
         ELSE IF bag.mTable
         THEN [bag EXCEPT
                 !.rows[bag.nextid] = serializeConfig(syncConfig),
                 !.mSyncConfigs[tag] = [syncConfig EXCEPT !.dbid = bag.nextid],
                 !.nextid = @ + 1]
         ELSE [bag EXCEPT !.mSyncConfigs[tag] = syncConfig]
    ELSE LET tableId == getConfig(bag, tag).dbid IN
         IF bag.mTable /\ ~putOk THEN bag
         ELSE [bag EXCEPT
                 !.rows = IF bag.mTable
                          THEN [@ EXCEPT ![tableId] = serializeConfig(syncConfig)]
                          ELSE @,
                 !.mSyncConfigs[tag] = [syncConfig EXCEPT !.dbid = tableId]]

\* SyncConfigBag::removeByTag; delOk tells whether DbTable::del succeeds
removeByTag(bag, tag, delOk) ==
    IF getConfig(bag, tag) = NoConfig THEN bag
    ELSE [bag EXCEPT
            !.rows = IF bag.mTable /\ delOk
                     THEN [@ EXCEPT ![getConfig(bag, tag).dbid] = NoConfigRow]
                     ELSE @,
            !.mSyncConfigs[tag] = NoConfig]

\* SyncConfigBag::clear
clearConfigs(bag) ==
    [bag EXCEPT
        !.rows = IF bag.mTable THEN NoBag.rows ELSE @,
        !.nextid = IF bag.mTable THEN 0 ELSE @,
        !.mSyncConfigs = NoBag.mSyncConfigs]

\* the configs a caller hands to insert
ConfigsIn ==
    [tag : ConfigTags, remoteNode : {"x", "y"}, dbid : {MaxConfigId}]

\* the tables a bag is first made over
ConfigRowsIn ==
    {rows \in [ConfigIds -> {NoConfigRow, BadConfigRow}
                              \cup [tag : ConfigTags, remoteNode : {"x"}]] :
        \A id \in ConfigIds : id > 1 => rows[id] = NoConfigRow}

BagLeaves(bag, last) ==
    /\ syncConfigs' = [bag EXCEPT !.last = last]
    /\ UNCHANGED <<tripIn, tripOut, lnodes, cnodes, fsidIdx, handleIdx, fsys,
                   notifyq, mScanRequest, mSyncFlags, mFileChangingCheckState,
                   insertq, deleteq, state, ds, acts, rowlog, visitlog, trail,
                   statecachetable, cachelog, fsstableids, mWorker, debris,
                   scanServices,
                   ub, assertOk, envLeft, issued, start>>

\* a call of SyncConfigBag::insert
BagInsert(syncConfig, putOk) ==
    /\ putOk \/ syncConfigs.mTable
    /\ (syncConfigs.mTable /\ getConfig(syncConfigs, syncConfig.tag) = NoConfig)
            => syncConfigs.nextid <= MaxConfigId
    /\ BagLeaves(insertConfig(syncConfigs, syncConfig, putOk),
                 [op |-> "insert", tag |-> syncConfig.tag,
                  had |-> getConfig(syncConfigs, syncConfig.tag) # NoConfig,
                  ok |-> putOk])

\* a call of SyncConfigBag::removeByTag
BagRemoveByTag(tag, delOk) ==
    /\ delOk \/ syncConfigs.mTable
    /\ BagLeaves(removeByTag(syncConfigs, tag, delOk),
                 [op |-> "removeByTag", tag |-> tag,
                  had |-> getConfig(syncConfigs, tag) # NoConfig,
                  ok |-> delOk])

\* a call of SyncConfigBag::clear
BagClear ==
    BagLeaves(clearConfigs(syncConfigs),
              [op |-> "clear", tag |-> 0, had |-> FALSE, ok |-> TRUE])

\* the client starts again: a new bag is made over the table's rows
BagOpened(opened) ==
    BagLeaves(SyncConfigBag(syncConfigs.rows, opened),
              [op |-> "open", tag |-> 0, had |-> FALSE, ok |-> opened])

BagInit ==
    /\ TripIdle /\ RecWorldAt("synced") /\ debris = NoDebris
    /\ scanServices = NoServices
    /\ \E rows \in ConfigRowsIn, opened \in BOOLEAN :
            syncConfigs = SyncConfigBag(rows, opened)

BagNext ==
    \/ \E syncConfig \in ConfigsIn, putOk \in BOOLEAN :
            BagInsert(syncConfig, putOk)
    \/ \E tag \in ConfigTags, delOk \in BOOLEAN : BagRemoveByTag(tag, delOk)
    \/ BagClear
    \/ \E opened \in BOOLEAN : BagOpened(opened)

SpecBag == BagInit /\ [][BagNext]_vars

(***************************************************************************)
(* Sync::movetolocaldebris, attempt by attempt.  FileSystemAccess and      *)
(* LocalPath are not part of sync.cpp: mkdirlocal and renamelocal fail     *)
(* with target_exists where the target is there and without it where its   *)
(* parent is missing, renamelocal may fail with transient_error, and       *)
(* ScopedLengthRestore cuts a path back to the length it had.              *)
(***************************************************************************)
\* the loop's first i, its limit, and the i above which the debris folder
\* is made again
DebrisFirst == -3
DebrisLimit == 100
DebrisRemade == 95

\* a component of a path below the sync root; nn is the number of a day
\* folder's time suffix, -1 where there is none
Comp(name, nn) == [name |-> name, nn |-> nn]

\* the day folder's name in attempt i: the date, then from i = 0 on the
\* time and i
dayName(i) == Comp("day", IF i >= 0 THEN i ELSE -1)

\* LocalPath::appendWithSeparator
appendWithSeparator(path, comp) == Append(path, comp)

\* the directory a path lies in is there; the sync root always is
parentExists(dirs, path) ==
    Len(path) = 1 \/ SubSeq(path, 1, Len(path) - 1) \in dirs

\* FileSystemAccess::mkdirlocal; `fails` is an error of the filesystem
mkdirlocal(dirs, files, path, fails) ==
    IF path \in dirs \/ path \in files
    THEN [dirs |-> dirs, ok |-> FALSE, target_exists |-> TRUE]
    ELSE IF fails \/ ~parentExists(dirs, path)
    THEN [dirs |-> dirs, ok |-> FALSE, target_exists |-> FALSE]
    ELSE [dirs |-> dirs \cup {path}, ok |-> TRUE, target_exists |-> FALSE]

\* FileSystemAccess::renamelocal without override; `error` is "" or an
\* error of the filesystem
renamelocal(dirs, files, from, to, error) ==
    IF error = "transient"
    THEN [files |-> files, ok |-> FALSE, transient_error |-> TRUE,
          target_exists |-> FALSE]
    ELSE IF to \in files \/ to \in dirs
    THEN [files |-> files, ok |-> FALSE, transient_error |-> FALSE,
          target_exists |-> TRUE]
    ELSE IF error = "fatal" \/ ~parentExists(dirs, to) \/ from \notin files
    THEN [files |-> files, ok |-> FALSE, transient_error |-> FALSE,
          target_exists |-> FALSE]
    ELSE [files |-> (files \ {from}) \cup {to}, ok |-> TRUE,
          transient_error |-> FALSE, target_exists |-> FALSE]

\* ScopedLengthRestore::~ScopedLengthRestore
ScopedLengthRestore(path, length) == SubSeq(path, 1, length)

\* the return of line 1529, and a loop that goes on after a transient error
transientReturnsNever(transient_error) == FALSE
transientReturns(transient_error) == transient_error

\* one turn of the loop of lines 1491-1536
debrisAttempt(d, debrisFails, dayFails, error) ==
    LET i == d.i
        length == Len(d.localdebris)
        made == IF i = -2 \/ i > DebrisRemade
                THEN mkdirlocal(d.dirs, d.files, d.localdebris, debrisFails)
                ELSE [dirs |-> d.dirs, ok |-> FALSE, target_exists |-> FALSE]
        day == appendWithSeparator(d.localdebris, dayName(i))
        daily == IF i > DebrisFirst
                 THEN mkdirlocal(made.dirs, d.files, day, dayFails)
                 ELSE made
        havedir == IF i > DebrisFirst THEN daily.ok \/ daily.target_exists
                   ELSE d.havedir
        target == appendWithSeparator(day, d.localpath[Len(d.localpath)])
        renamed == renamelocal(daily.dirs, d.files, d.localpath, target, error)
        returns == \/ renamed.ok
                   \/ transientReturns(renamed.transient_error)
                   \/ havedir /\ ~renamed.target_exists
                   \/ i + 1 >= DebrisLimit
    IN  [d EXCEPT
            !.pc = IF returns THEN "returned" ELSE "loop",
            !.i = IF returns THEN i ELSE i + 1,
            !.havedir = havedir,
            !.localdebris = ScopedLengthRestore(target, length),
            !.dirs = daily.dirs,
            !.files = renamed.files,
            !.attempts = @ + 1,
            !.suffixed = IF i >= 0 THEN @ + 1 ELSE @,
            !.renamed = IF renamed.ok THEN @ + 1 ELSE @,
            !.transient = @ \/ renamed.transient_error,
            !.result = renamed.ok]

\* Sync::localdebris, the item that is moved, and the day folders
DebrisPath == <<Comp("debris", -1)>>
DebrisItem == <<Comp("a", -1)>>
DayPath(i) == Append(DebrisPath, dayName(i))
DayPaths == {DayPath(i) : i \in -1..(DebrisLimit - 1)}
Held(days) == {Append(day, DebrisItem[1]) : day \in days}

\* the folders and files a call finds: no debris, an empty debris, and
\* day folders that already hold an item of the name
DebrisWorld(days) ==
    [dirs |-> {DebrisPath} \cup days, files |-> {DebrisItem} \cup Held(days)]
DebrisWorlds ==
    {[dirs |-> {}, files |-> {DebrisItem}],
     [dirs |-> {DebrisPath}, files |-> {DebrisItem}],
     [dirs |-> {DebrisPath, DayPath(-1)}, files |-> {DebrisItem}],
     DebrisWorld({DayPath(-1)}),
     DebrisWorld({DayPath(-1), DayPath(0)}),
     DebrisWorld(DayPaths)}

DebrisLeaves(d) ==
    /\ debris' = d
    /\ UNCHANGED <<tripIn, tripOut, lnodes, cnodes, fsidIdx, handleIdx, fsys,
                   notifyq, mScanRequest, mSyncFlags, mFileChangingCheckState,
                   insertq, deleteq, state, ds, acts, rowlog, visitlog, trail,
                   statecachetable, cachelog, fsstableids, mWorker,
                   syncConfigs, scanServices, ub, assertOk, envLeft, issued,
                   start>>

\* Sync::movetolocaldebris is called
DebrisCall ==
    /\ debris.pc = "idle"
    /\ DebrisLeaves([debris EXCEPT !.pc = "loop", !.i = DebrisFirst,
                                   !.havedir = FALSE])

\* the loop's next turn
DebrisAttempt ==
    /\ debris.pc = "loop"
    /\ \E debrisFails \in BOOLEAN, dayFails \in BOOLEAN,
          error \in {"", "transient", "fatal"} :
            DebrisLeaves(debrisAttempt(debris, debrisFails, dayFails, error))

DebrisInit ==
    /\ TripIdle /\ RecWorldAt("synced") /\ syncConfigs = NoBag
    /\ scanServices = NoServices
    /\ \E world \in DebrisWorlds :
            debris = [NoDebris EXCEPT !.pc = "idle",
                                      !.localdebris = DebrisPath,
                                      !.debris0 = DebrisPath,
                                      !.localpath = DebrisItem,
                                      !.dirs = world.dirs,
                                      !.files = world.files]

DebrisNext == DebrisCall \/ DebrisAttempt

\* the thread inside movetolocaldebris goes on
SpecDebris == DebrisInit /\ [][DebrisNext]_vars /\ WF_debris(DebrisNext)

(***************************************************************************)
(* The scan services' count of themselves and their shared worker.  Each   *)
(* thread makes a service and destroys it again; a step is what a thread   *)
(* does between two points where another can run: mNumServices is atomic,  *)
(* mWorker is written with mWorkerLock held.                               *)
(***************************************************************************)
LifeLeaves(sv) ==
    /\ scanServices' = sv
    /\ UNCHANGED <<tripIn, tripOut, lnodes, cnodes, fsidIdx, handleIdx, fsys,
                   notifyq, mScanRequest, mSyncFlags, mFileChangingCheckState,
                   insertq, deleteq, state, ds, acts, rowlog, visitlog, trail,
                   statecachetable, cachelog, fsstableids, mWorker,
                   syncConfigs, debris, ub, assertOk, envLeft, issued, start>>

\* line 54: the constructor takes mWorkerLock
CtorLock(t) ==
    /\ scanServices.threads[t].pc = "none"
    /\ scanServices.threads[t].lives < MaxLives
    /\ scanServices.mWorkerLock = 0
    /\ LifeLeaves([scanServices EXCEPT !.mWorkerLock = t,
                                       !.threads[t].pc = "ctorCount",
                                       !.threads[t].lives = @ + 1])

\* line 56: ++mNumServices == 1
CtorCount(t) ==
    /\ scanServices.threads[t].pc = "ctorCount"
    /\ LifeLeaves([scanServices EXCEPT
                     !.mNumServices = @ + 1,
                     !.threads[t].pc = IF scanServices.mNumServices + 1 = 1
                                       THEN "ctorReset" ELSE "ctorUnlock"])

\* line 58: mWorker.reset(new Worker())
CtorReset(t) ==
    /\ scanServices.threads[t].pc = "ctorReset"
    /\ LifeLeaves([scanServices EXCEPT !.mWorker = TRUE,
                                       !.workers = @ + 1,
                                       !.threads[t].pc = "ctorUnlock"])

\* line 60: the lock is released and the constructor returns
CtorReturns(t) ==
    /\ scanServices.threads[t].pc = "ctorUnlock"
    /\ LifeLeaves([scanServices EXCEPT !.mWorkerLock = 0,
                                       !.threads[t].pc = "alive"])

\* line 64: the destructor starts with --mNumServices == 0
DtorCount(t) ==
    /\ scanServices.threads[t].pc = "alive"
    /\ LifeLeaves([scanServices EXCEPT
                     !.mNumServices = @ - 1,
                     !.threads[t].pc = IF scanServices.mNumServices - 1 = 0
                                       THEN "dtorLock" ELSE "none"])

\* line 66: the destructor takes mWorkerLock
DtorLock(t) ==
    /\ scanServices.threads[t].pc = "dtorLock"
    /\ scanServices.mWorkerLock = 0
    /\ LifeLeaves([scanServices EXCEPT !.mWorkerLock = t,
                                       !.threads[t].pc = "dtorReset"])

\* lines 67-68: mWorker.reset(), and the lock is released
DtorReset(t) ==
    /\ scanServices.threads[t].pc = "dtorReset"
    /\ LifeLeaves([scanServices EXCEPT !.mWorker = FALSE,
                                       !.mWorkerLock = 0,
                                       !.threads[t].pc = "none"])

LifeInit == TripIdle /\ RecStartAt("synced")

LifeNext ==
    \E t \in ServiceThreads :
        \/ CtorLock(t)
        \/ CtorCount(t)
        \/ CtorReset(t)
        \/ CtorReturns(t)
        \/ DtorCount(t)
        \/ DtorLock(t)
        \/ DtorReset(t)

SpecLife == LifeInit /\ [][LifeNext]_vars

(***************************************************************************)
(* Claims about computeSyncTriplets.                                       *)
(***************************************************************************)
RowsWithCloud(h) ==
    {i \in DOMAIN tripOut.rows :
        \/ tripOut.rows[i].cloudNode = h
        \/ h \in Range(tripOut.rows[i].cloudClashingNames)}

RowsWithLocal(l) ==
    {i \in DOMAIN tripOut.rows : tripOut.rows[i].syncNode = l}

\* the rows holding the filesystem entry named n
RowsWithFs(n) ==
    {i \in DOMAIN tripOut.rows :
        \/ /\ tripOut.rows[i].fsNode # 0
           /\ tripOut.fsNodes[tripOut.rows[i].fsNode].name = n
        \/ \E k \in Range(tripOut.rows[i].fsClashingNames) :
              tripOut.fsNodes[k].name = n}

\* C3: every cloud child, LocalNode child and fsNode given to
\* computeSyncTriplets appears in exactly one returned row, as the row's
\* node or as one of its clashing names.
C3_TripletTotality ==
    tripOut.called =>
        /\ \A h \in DOMAIN tripIn.cn : Cardinality(RowsWithCloud(h)) = 1
        /\ \A l \in DOMAIN tripIn.ln : Cardinality(RowsWithLocal(l)) = 1
        /\ \A i \in DOMAIN tripIn.fsNodes :
              Cardinality(RowsWithFs(tripIn.fsNodes[i].name)) = 1

\* C4: computeSyncTriplets returns one row per local-name equivalence
\* class under the filesystem-dependent comparator: no two rows built from
\* the fs/LocalNode pairing compare equal, and the assertions on the length
\* of a tie-run hold.
C4_OneRowPerNameClass ==
    tripOut.called =>
        /\ tripOut.assertOk
        /\ \A i, j \in DOMAIN tripOut.rows :
              (/\ i # j
               /\ tripOut.rows[i].syncNode # 0 \/ tripOut.rows[i].fsNode # 0
               /\ tripOut.rows[j].syncNode # 0 \/ tripOut.rows[j].fsNode # 0)
              => fsCompare(RowName(tripOut.rows[i], tripIn.ln, tripOut.fsNodes),
                           RowName(tripOut.rows[j], tripIn.ln, tripOut.fsNodes),
                           tripIn.ci) # 0

(***************************************************************************)
(* Claims about syncItem.                                                  *)
(***************************************************************************)
\* the rows of the last pass that reached the decision table
TableRows ==
    {i \in DOMAIN rowlog :
        rowlog[i].stage \notin {"blocked", "localMove", "cloudMove"}}

\* the step the decision table names for the logged row e
NamedStep(e) ==
    LET hasC == e.cloudNode # 0
        hasS == e.syncNode # 0
        hasF == e.fsNode # 0
        cloudEq == syncEqualCloud(e.c, e.s)
        fsEq == syncEqual(e.f, e.s)
    IN  CASE hasC /\ hasS /\ hasF ->
               IF cloudEq /\ fsEq THEN "synced"
               ELSE IF cloudEq THEN "upsync"
               ELSE IF fsEq THEN "downsync"
               ELSE "userIntervention"
          [] ~hasC /\ hasS /\ hasF ->
               IF e.s.syncedCloudNodeHandle = UNDEF THEN "upsync"
               ELSE "cloudNodeGone"
          [] hasC /\ hasS /\ ~hasF ->
               IF e.s.fsid # UNDEF THEN "fsNodeGone" ELSE "downsync"
          [] ~hasC /\ hasS /\ ~hasF -> "delSyncNode"
          [] hasC /\ ~hasS /\ hasF ->
               IF e.f.type # e.c.type THEN "userIntervention"
               ELSE IF e.f.type = FOLDERNODE \/ e.f.fingerprint = e.c.fingerprint
               THEN "makeSyncNode_fromFS"
               ELSE "pickWinner"
          [] ~hasC /\ ~hasS /\ hasF -> "makeSyncNode_fromFS"
          [] hasC /\ ~hasS /\ ~hasF -> "makeSyncNode_fromCloud"
          [] OTHER -> "none"

\* C1: a row that is not blocked and that neither move check takes over is
\* dispatched as the decision table says; a row found synced has its fsid
\* and cloud handle recorded on the syncNode, the syncNode is kept in the
\* state cache, and the row is reported synced.
C1_DecisionTable ==
    \A i \in TableRows :
        /\ rowlog[i].stage = NamedStep(rowlog[i])
        /\ rowlog[i].stage = "synced" =>
              /\ rowlog[i].ret
              /\ rowlog[i].after.fsid = rowlog[i].f.fsid
              /\ rowlog[i].after.syncedCloudNodeHandle = rowlog[i].cloudNode
              /\ rowlog[i].kept

\* a row was found synced whose syncNode did not know the cloud node yet
C1_Witness ==
    \E i \in TableRows :
        /\ rowlog[i].stage = "synced"
        /\ rowlog[i].s.syncedCloudNodeHandle # rowlog[i].cloudNode
        /\ rowlog[i].after.syncedCloudNodeHandle = rowlog[i].cloudNode

\* C2: while scansAndMovesComplete is false no syncItem call deletes a
\* LocalNode, moves a local path to the local debris or moves a cloud node
\* to the cloud debris.
C2_NoRemovalBeforeScansAndMovesComplete ==
    \A i \in DOMAIN acts :
        acts[i].op \in {"delete", "movetolocaldebris", "movetosyncdebris"}
            => acts[i].smc


\* what the reconciler writes: uploads, downloads, folders made, cloud and
\* local renames, moves to either debris, LocalNodes deleted
WriteOps ==
    {"startxfer_put", "putnodes", "startxfer_get", "mkdirlocal", "setattr",
     "rename", "renamelocal", "movetosyncdebris", "movetolocaldebris",
     "delete"}

\* the writes of the last pass made for its row i
WritesOfRow(i) == {j \in DOMAIN acts : acts[j].row = i /\ acts[j].op \in WriteOps}

\* C5: when a child row of a directory has clashing names, a conflict is
\* flagged on the directory and no write is made for that row in that
\* visit.
C5_ClashingRowNotWritten ==
    \A i \in DOMAIN rowlog :
        rowlog[i].clash =>
            /\ lnodes[rowlog[i].dir].conflicts >= TREE_DESCENDANT_FLAGGED
            /\ WritesOfRow(i) = {}


\* the rows of the last pass whose file is there on all three sides and
\* has changed on disk and in the cloud
BothChangedRows ==
    {i \in TableRows :
        /\ rowlog[i].cloudNode # 0 /\ rowlog[i].syncNode # 0
        /\ rowlog[i].fsNode # 0
        /\ rowlog[i].s.type = FILENODE
        /\ rowlog[i].c.type = FILENODE /\ rowlog[i].f.type = FILENODE
        /\ ~syncEqualCloud(rowlog[i].c, rowlog[i].s)
        /\ ~syncEqual(rowlog[i].f, rowlog[i].s)}

\* C6: a file row whose cloud node and fsNode both differ from the syncNode
\* goes to user intervention, nothing is written for it, the row is
\* reported not synced, and the conflicts flag is set on the directory.
C6_BothChangedNeedsUser ==
    \A i \in BothChangedRows :
        /\ rowlog[i].stage = "userIntervention"
        /\ WritesOfRow(i) = {}
        /\ ~rowlog[i].ret
        /\ lnodes[rowlog[i].dir].conflicts >= TREE_DESCENDANT_FLAGGED


\* C7: rename in place.  From the synced file "a" (fsid 7, mtime 1000, size
\* 10) whose directory now holds only "b" with the same fsid, mtime and
\* size, and with no change from outside, the reconciler sends one setattr
\* naming the cloud node "b" and nothing else, starts no transfer, and once
\* the tree is found synced the one LocalNode of fsid 7 is named "b".
C7_RenameInPlace ==
    (start = "renamed" /\ envLeft = EnvBudget) =>
        /\ Len(issued) <= 1
        /\ \A i \in DOMAIN issued :
              issued[i].op = "setattr" /\ issued[i].a = 2 /\ issued[i].b = "b"
        /\ state = "SYNC_ACTIVE" =>
              /\ Len(issued) = 1
              /\ \E n \in NodeIds :
                    /\ lnodes[n].live /\ lnodes[n].fsid = 7
                    /\ lnodes[n].name = "b"
                    /\ \A m \in NodeIds \ {n} :
                          lnodes[m].live => lnodes[m].fsid # 7

\* the rename was reconciled: the tree is synced again
C7_Witness ==
    /\ start = "renamed" /\ envLeft = EnvBudget
    /\ state = "SYNC_ACTIVE"
    /\ cnodes[2].name = "b"

\* the renames and moves among the commands sent since the outside last
\* changed anything
MoveCommands == {i \in DOMAIN issued : issued[i].op \in {"setattr", "rename"}}

\* C8: move detection is idempotent.  However often the same local move is
\* met, and whether or not the action packet of its command has arrived,
\* one rename or move command is sent for the moved node.
C8_MoveDetectionIdempotent ==
    \A i, j \in MoveCommands : issued[i].a = issued[j].a => i = j

\* the file LocalNodes synced with cloud node h whose path still holds a
\* file that checkIfFileIsChanging is waiting for
ChangingSources(h) ==
    {n \in NodeIds :
        /\ lnodes[n].live /\ lnodes[n].type = FILENODE
        /\ lnodes[n].syncedCloudNodeHandle = h
        /\ fopen(fsys, getLocalPath(lnodes, n))
        /\ mFileChangingCheckState[getLocalPath(lnodes, n)] # NoFic}

\* C9: while the file at the source path of a move is there and has not
\* been seen stable, the pass sends no rename or move command for it.
C9_NoMoveWhileFileIsChanging ==
    \A j \in DOMAIN acts :
        acts[j].op \in {"setattr", "rename"} => ChangingSources(acts[j].a) = {}

\* the LocalNodes the fsid index holds under fsid f
IndexedByFsid(f) == {n \in Range(fsidIdx) : lnodes[n].fsid = f}

\* the LocalNodes the cloud-handle index holds under handle h
IndexedByHandle(h) ==
    {n \in Range(handleIdx) : lnodes[n].syncedCloudNodeHandle = h}

\* C10: the fsid index holds at most one LocalNode per fsid and the
\* cloud-handle index at most one LocalNode per cloud handle.
C10_IdentityUniqueness ==
    /\ \A f \in FsIds : Cardinality(IndexedByFsid(f)) <= 1
    /\ \A h \in Handles : Cardinality(IndexedByHandle(h)) <= 1

\* the visits of recursiveSync that the passes so far have made
Visits == {visitlog[i] : i \in DOMAIN visitlog}

\* the directories below n in the tree ln
DescendantDirs(ln, n) ==
    {d \in Subtree(ln, n) \ {n} : ln[d].type = FOLDERNODE}

\* a visit that went through the directory's rows and the roll-up of lines
\* 2003-2015
FullVisits == {v \in Visits : ~v.early}

\* C11: when recursiveSync returns for a directory and a directory below it
\* has scanAgain, syncAgain or conflicts at TREE_ACTION_HERE or above, the
\* visited directory's flag of the same kind is at least
\* TREE_DESCENDANT_FLAGGED, also when the visited directory itself has
\* conflicts at TREE_ACTION_HERE or above.
C11_FlagMonotonicity ==
    \A v \in FullVisits : \A d \in DescendantDirs(v.ln, v.dir) :
        /\ v.ln[d].scanAgain >= TREE_ACTION_HERE
               => v.ln[v.dir].scanAgain >= TREE_DESCENDANT_FLAGGED
        /\ v.ln[d].syncAgain >= TREE_ACTION_HERE
               => v.ln[v.dir].syncAgain >= TREE_DESCENDANT_FLAGGED
        /\ v.ln[d].conflicts >= TREE_ACTION_HERE
               => v.ln[v.dir].conflicts >= TREE_DESCENDANT_FLAGGED

\* C12: recursiveSync is never called on a directory whose LocalNode has
\* deleting set, whether or not its parent's visit ran the sync step.
C12_NoDescentIntoDeleting ==
    \A v \in Visits : v.dir # LocalRoot => ~v.deleting

\* C13: a directory gets a lastFolderScan only in the visit that takes a
\* completed scan; a visit that holds one and clears it ran the sync step
\* and found every row synced; and a visit that ran the sync step and found
\* every row synced leaves none.
C13_LastFolderScanLifetime ==
    \A v \in Visits :
        /\ (v.scanAfter /\ ~v.scanBefore) => v.consumed
        /\ ((v.scanBefore \/ v.consumed) /\ ~v.scanAfter)
               => (v.syncHere /\ v.folderSynced)
        /\ ((v.scanBefore \/ v.consumed) /\ v.syncHere /\ v.folderSynced)
               => ~v.scanAfter

C15_TerminalStatesStay ==
    [][(SyncLives /\ state \in TerminalStates) => state' = state]_vars

\* C16: while the sync is in a terminal state, the calls of statecacheadd
\* and statecachedel leave insertq and deleteq as they are.
C16_TerminalCacheNoOps ==
    [][(SyncLives /\ state \in TerminalStates)
          => (insertq' = insertq /\ deleteq' = deleteq)]_vars

\* the rows the last cachenodes wrote
Puts == {i \in DOMAIN cachelog : cachelog[i].op = "put"}

\* C17: in a run of cachenodes every queued deletion is applied before any
\* row is written, a LocalNode is written only when its parent has a dbid
\* or is the sync root, and the row of its parent is then in the table; no
\* row of the table names a parent that has no row.
C17_DeletionsThenParentedAdditions ==
    /\ \A i \in Puts : \A j \in DOMAIN cachelog :
          i < j => cachelog[j].op = "put"
    /\ \A i \in Puts :
          /\ cachelog[i].parentIsRoot \/ cachelog[i].parent_dbid # 0
          /\ cachelog[i].parentStored
    /\ \A d \in DOMAIN statecachetable.rows :
          \/ statecachetable.rows[d].parent_dbid = 0
          \/ statecachetable.rows[d].parent_dbid
                 \in DOMAIN statecachetable.rows

\* a run of cachenodes that deleted a row and then wrote the row of a node
\* below a folder that has a row
C17_Witness ==
    /\ \E i \in DOMAIN cachelog : cachelog[i].op = "del"
    /\ \E i \in Puts : ~cachelog[i].parentIsRoot

\* the queued nodes of world w that have an ancestor below the root which
\* has no dbid and is not queued
Residue(w) ==
    {l \in w.insertq :
        \E a \in Ancestors(w.ln, l) \ {LocalRoot} :
            w.ln[a].dbid = 0 /\ a \notin w.insertq}

Restored(ln, d) == {l \in DOMAIN ln : ln[l].live /\ ln[l].dbid = d}

\* the tree ln with its indices is the table t read back: every row is one
\* LocalNode under the node of its parent's row, with the row's name, type,
\* size and cloud handle and the fsid `fsidOf` gives for the row, indexed
\* by fsid and by handle where it has them; and there is no other LocalNode
ReadBack(ln, fsidIndex, handleIndex, t, fsidOf(_)) ==
    /\ \A d \in DOMAIN t.rows :
          /\ Cardinality(Restored(ln, d)) = 1
          /\ \A l \in Restored(ln, d) :
                /\ IF t.rows[d].parent_dbid = 0
                   THEN ln[l].parent = LocalRoot
                   ELSE /\ ln[l].parent # LocalRoot
                        /\ ln[ln[l].parent].dbid = t.rows[d].parent_dbid
                /\ ln[l].name = t.rows[d].name
                /\ ln[l].type = t.rows[d].type
                /\ ln[l].fingerprint.size = t.rows[d].fingerprint.size
                /\ ln[l].syncedCloudNodeHandle
                       = t.rows[d].syncedCloudNodeHandle
                /\ ln[l].fsid = fsidOf(t.rows[d])
                /\ ln[l].fsid # UNDEF
                       => Cardinality({i \in DOMAIN fsidIndex :
                                          fsidIndex[i] = l}) = 1
                /\ ln[l].syncedCloudNodeHandle # UNDEF
                       => Cardinality({i \in DOMAIN handleIndex :
                                          handleIndex[i] = l}) = 1
    /\ \A l \in DOMAIN ln :
          ln[l].live /\ l # LocalRoot => ln[l].dbid \in DOMAIN t.rows

\* a new Sync has been made over a database
SyncRestored == ~SyncLives /\ SyncLives' /\ statecachetable'.present

\* the fsid of a row
RowFsid(row) == row.fsid

\* the fsid readstatecache gives the LocalNode of a row once the new sync
\* knows whether the filesystem's ids are stable
RowFsidIfStable(row) == IF fsstableids' THEN row.fsid ELSE UNDEF

\* C19 as stated: readstatecache on a new Sync in SYNC_INITIALSCAN attaches
\* every row of the state cache once, under the node of the row's
\* parent_dbid, with the row's localname, type, size, fsid and
\* syncedCloudNodeHandle, and indexes it by fsid and by cloud handle.
C19_RoundTrip ==
    [][SyncRestored
          => ReadBack(lnodes', fsidIdx', handleIdx', statecachetable,
                      RowFsid)]_vars

\* C19 with the fsid taken from the row only on a filesystem whose ids are
\* stable, and left UNDEF (and out of the fsid index) otherwise.
C19_RoundTripStableFsid ==
    [][SyncRestored
          => ReadBack(lnodes', fsidIdx', handleIdx', statecachetable,
                      RowFsidIfStable)]_vars

\* a sync read back on a filesystem without stable ids: a node below a
\* folder has lost the fsid its row holds
C19_Witness ==
    /\ SyncLives /\ ~fsstableids /\ statecachetable.present
    /\ \E d \in DOMAIN statecachetable.rows :
          /\ statecachetable.rows[d].parent_dbid # 0
          /\ statecachetable.rows[d].fsid # UNDEF
          /\ \E l \in Restored(lnodes, d) :
                /\ lnodes[l].fsid = UNDEF
                /\ lnodes[lnodes[l].parent].dbid
                       = statecachetable.rows[d].parent_dbid

(***************************************************************************)
(* Claims about the scan service.                                          *)
(***************************************************************************)
\* the path is the sync root or a directory that can be opened
CanIterate(fs, path) ==
    \/ path = <<>>
    \/ /\ FsAt(fs, path).exists /\ FsAt(fs, path).type = FOLDERNODE
       /\ ~FsAt(fs, path).isBlocked

\* C20: a request whose target is not there, is not a directory or cannot
\* be opened is completed by the worker with no results; a request for a
\* path in the debris is complete as soon as it is made, has no results and
\* is never queued.
C20_FailedScanIsEmpty ==
    [][/\ (mScanRequest.queued /\ ~mScanRequest'.queued
             /\ ~CanIterate(fsys, mScanRequest.path))
          => (mScanRequest'.completed /\ mScanRequest'.results = <<>>)
       /\ (mScanRequest'.active
             /\ isContainingPathOf(localdebris, mScanRequest'.path))
          => /\ ~mScanRequest'.queued
             /\ mScanRequest'.completed
             /\ mScanRequest'.results = <<>>]_vars

\* a completed scan of a path that holds a file, next to a filesystem that
\* has entries
C20_Witness ==
    /\ mScanRequest.active /\ mScanRequest.completed
    /\ mScanRequest.results = <<>>
    /\ FsAt(fsys, mScanRequest.path).exists
    /\ FsAt(fsys, mScanRequest.path).type = FILENODE

\* the records of `known` for the name whose type, fsid, mtime and size are
\* those of the entry e
KnownAlike(known, name, e) ==
    {k \in known : /\ k.name = name
                   /\ k.type = e.type
                   /\ k.fsid = e.fsid
                   /\ k.mtime = e.fingerprint.mtime
                   /\ k.size = e.fingerprint.size}

\* C21: the worker gives a file it read the fingerprint of the directory's
\* known record of that name when the record's type, fsid, mtime and size
\* are all those read from the filesystem, and otherwise the fingerprint it
\* computes from the file.
C21_FingerprintReuse ==
    [][(mScanRequest.queued /\ ~mScanRequest'.queued)
       => \A i \in DOMAIN mScanRequest'.results :
             LET r == mScanRequest'.results[i]
                 e == fsys[Append(mScanRequest.path, r.name)]
                 alike == KnownAlike(mScanRequest.known, r.name, e)
             IN  (r.type = FILENODE /\ ~r.isBlocked)
                 => IF alike # {}
                    THEN \E k \in alike : r.fingerprint = k.fingerprint
                    ELSE r.fingerprint = e.fingerprint]_vars

(***************************************************************************)
(* Claims about the worker's threads.                                      *)
(***************************************************************************)
\* C22: once a request is complete the worker writes neither its results
\* nor its known records, so what the owner copies after completed() stays
\* what the request holds; a service's cookie is told only of a request
\* that is complete, and only while the service is there.
C22_ResultsBeforeComplete ==
    [][/\ \A r \in DOMAIN mWorker.requests :
             /\ mWorker.requests[r].req.completed
                => /\ mWorker'.requests[r].req.completed
                   /\ mWorker'.requests[r].req.results
                        = mWorker.requests[r].req.results
                   /\ mWorker'.requests[r].req.known
                        = mWorker.requests[r].req.known
             /\ mWorker'.requests[r].read
                => mWorker'.requests[r].results
                     = mWorker'.requests[r].req.results
       /\ \A s \in DOMAIN mWorker.notified :
             mWorker'.notified[s] # mWorker.notified[s]
             => /\ mWorker.services[s] = "alive"
                /\ \E t \in DOMAIN mWorker.mThreads :
                      LET r == mWorker.mThreads[t].request
                      IN  /\ mWorker'.mThreads[t] # mWorker.mThreads[t]
                          /\ r # 0
                          /\ mWorker.requests[r].mCookie = s
                          /\ mWorker.requests[r].req.completed]_vars

\* the owner has copied the entries a scan found, and its cookie was told
C22_Witness ==
    \E r \in DOMAIN mWorker.requests :
        /\ mWorker.requests[r].read
        /\ mWorker.requests[r].results # <<>>
        /\ mWorker.notified[mWorker.requests[r].mCookie] > 0

\* C23: once the destructor has queued the sentinel the worker is destroyed
\* in the end, with every thread returned and joined; a thread returns only
\* with the sentinel at the front of mPending and leaves it there; and by
\* then every request that was queued has been scanned and is complete.
C23_WorkerDestroyed ==
    /\ (mWorker.dtor = "notify") ~> (mWorker.dtor = "done")
    /\ [](mWorker.dtor = "done"
            => /\ mWorker.joined = Len(mWorker.mThreads)
               /\ \A t \in DOMAIN mWorker.mThreads :
                     mWorker.mThreads[t].pc = "returned"
               /\ \A r \in DOMAIN mWorker.requests :
                     mWorker.requests[r].req.completed)
    /\ [][\A t \in DOMAIN mWorker.mThreads :
             (mWorker.mThreads[t].pc # "returned"
                /\ mWorker'.mThreads[t].pc = "returned")
             => /\ mWorker.mPending # <<>>
                /\ Head(mWorker.mPending) = 0
                /\ mWorker'.mPending = mWorker.mPending]_vars

\* a worker of two threads is destroyed after it has scanned a directory
C23_Witness ==
    /\ mWorker.dtor = "done"
    /\ Len(mWorker.mThreads) = MaxThreads
    /\ \E r \in DOMAIN mWorker.requests :
          mWorker.requests[r].req.results # <<>>

(***************************************************************************)
(* Claims about the steps of the table.                                    *)
(***************************************************************************)
\* the moves to the local debris the last pass made for its row i
DebrisMoves(i) ==
    {j \in DOMAIN acts : acts[j].row = i /\ acts[j].op = "movetolocaldebris"}

\* C24: a row whose cloud node is gone, met with scansAndMovesComplete, has
\* its local item moved to the local debris, is not descended into and has
\* its directory flagged for a scan; if the move fails the step changes
\* nothing.  The row of a LocalNode with neither cloud node nor fsNode, met
\* with scansAndMovesComplete, has the LocalNode deleted.
C24_CloudDeletion ==
    \A i \in DOMAIN rowlog :
        LET e == rowlog[i]
        IN  /\ (e.stage = "cloudNodeGone" /\ e.smc)
               => IF DebrisMoves(i) # {}
                  THEN /\ \A j \in DebrisMoves(i) : ~FsAt(fsys, acts[j].a).exists
                       /\ e.suppressRecursion
                       /\ \A v \in Visits : v.dir # e.syncNode
                       /\ e.dirScanAgain >= TREE_ACTION_HERE
                       /\ ~e.ret
                  ELSE e.same
            /\ (e.stage = "delSyncNode" /\ e.smc)
               => /\ e.after = NoLocalNode
                  /\ \E j \in DOMAIN acts :
                        /\ acts[j].row = i /\ acts[j].op = "delete"
                        /\ acts[j].a = e.syncNode

\* the LocalNode of an item that was in the cloud and is not marked as
\* deleted by the user is deleted, the item being neither on disk nor in
\* the cloud any more: the pass that found the cloud node gone moved the
\* item to the debris
C24_Witness ==
    \E i \in DOMAIN rowlog :
        /\ rowlog[i].stage = "delSyncNode" /\ rowlog[i].smc
        /\ rowlog[i].s.syncedCloudNodeHandle # UNDEF
        /\ ~rowlog[i].s.deleting
        /\ rowlog[i].after = NoLocalNode
        /\ start = "synced"
        /\ ~FsAt(fsys, <<"a">>).exists

\* the fsNode could not be read when its directory was scanned
Unread(f) == f.type = TYPE_UNKNOWN \/ f.isBlocked

TagsHeld(bag) == {tag \in ConfigTags : bag.mSyncConfigs[tag] # NoConfig}

\* what a call of insert with this config has to leave
Inserted(syncConfig, putOk) ==
    LET bag == syncConfigs
        after == syncConfigs'
        tag == syncConfig.tag
        got == after.mSyncConfigs[tag]
    IN  IF bag.mTable /\ ~putOk
        THEN after.mSyncConfigs = bag.mSyncConfigs /\ after.nextid = bag.nextid
        ELSE /\ got.tag = tag /\ got.remoteNode = syncConfig.remoteNode
             /\ \A other \in ConfigTags \ {tag} :
                    after.mSyncConfigs[other] = bag.mSyncConfigs[other]
             /\ IF tag \in TagsHeld(bag)
                THEN /\ got.dbid = bag.mSyncConfigs[tag].dbid
                     /\ TagsHeld(after) = TagsHeld(bag)
                ELSE /\ TagsHeld(after) = TagsHeld(bag) \cup {tag}
                     /\ bag.mTable =>
                          /\ got.dbid = bag.nextid
                          /\ after.nextid > bag.nextid
                          /\ \A other \in TagsHeld(bag) :
                                bag.mSyncConfigs[other].dbid # got.dbid

\* C26: SyncConfigBag::insert adds or updates by tag.  A config whose tag
\* the bag does not hold becomes one more entry, and over a table its dbid
\* is the table's nextid, which then grows, and is the dbid of no other
\* entry; a config whose tag the bag holds replaces that entry, which keeps
\* its dbid, and the bag keeps its number of entries; after an insert that
\* went through get(tag) gives the config inserted; when the table's put
\* fails the bag and nextid stay as they were.
C26_InsertAddsOrUpdates ==
    [][\A syncConfig \in ConfigsIn, putOk \in BOOLEAN :
            BagInsert(syncConfig, putOk) => Inserted(syncConfig, putOk)]_vars

\* an insert has added a config, under the table's nextid, to a bag that
\* held another
C26_Witness ==
    /\ syncConfigs.last.op = "insert" /\ syncConfigs.last.ok
    /\ ~syncConfigs.last.had /\ syncConfigs.mTable
    /\ Cardinality(TagsHeld(syncConfigs)) = 2
    /\ syncConfigs.nextid > 2

(***************************************************************************)
(* Claims about the local debris.                                          *)
(***************************************************************************)
\* C27: movetolocaldebris ends after at most 103 renames, of which at most
\* 100 go to a day folder with a time suffix; while it goes on no rename has
\* succeeded and none has failed with a transient error; it returns true
\* exactly when a rename succeeded, with the item still at its path whenever
\* it returns false, and with Sync::localdebris as it was before the call.
C27_DebrisMoveEnds ==
    /\ (debris.pc = "loop") ~> (debris.pc = "returned")
    /\ [](/\ debris.attempts <= DebrisLimit - DebrisFirst
          /\ debris.suffixed <= DebrisLimit
          /\ debris.pc = "loop" => debris.renamed = 0 /\ ~debris.transient
          /\ debris.pc = "returned" =>
                /\ debris.result <=> debris.renamed = 1
                /\ debris.renamed <= 1
                /\ ~debris.result => debris.localpath \in debris.files
                /\ debris.localdebris = debris.debris0)

\* a call has returned false after a rename failed with a transient error,
\* having tried day folders with a time suffix before
C27_Witness ==
    /\ debris.pc = "returned" /\ ~debris.result /\ debris.transient
    /\ debris.suffixed > 1

(***************************************************************************)
(* Claims about the order of a visit's steps.                              *)
(***************************************************************************)
\* the places in the trail of the steps `ev` of the visit of directory n,
\* and of those of them that are about row r
TrailAt(ev, n) ==
    {p \in DOMAIN trail : trail[p].ev = ev /\ trail[p].dir = n}
TrailOf(ev, n, r) == {p \in TrailAt(ev, n) : trail[p].row = r}
MoveChecks(n, r) == TrailOf("localCheck", n, r) \cup TrailOf("cloudCheck", n, r)

\* the directories the last pass went into
Entered == {trail[p].dir : p \in {q \in DOMAIN trail : trail[q].ev = "enter"}}

\* C28: within one recursiveSync visit of a directory a completed scan is
\* taken before any row is given to syncItem; a row's move and rename
\* checks come before its step of the decision table, and a row whose move
\* was dealt with by a check gets no step of the table; every row has been
\* given to syncItem before the visit descends into any child directory;
\* and every row of the directory is given to syncItem, whatever syncItem
\* returned for the rows before it.
C28_StepsInOrder ==
    /\ \A n \in Entered :
        /\ \A c \in TrailAt("consume", n), i \in TrailAt("item", n) : c < i
        /\ \A t \in TrailAt("table", n) :
            /\ \A m \in MoveChecks(n, trail[t].row) : m < t
            /\ \E i \in TrailOf("item", n, trail[t].row) : i < t
        /\ \A d \in TrailAt("descend", n) :
                \A i \in TrailAt("item", n) \cup TrailAt("table", n)
                            \cup TrailAt("localCheck", n)
                            \cup TrailAt("cloudCheck", n) : i < d
        /\ \A r \in TrailAt("rows", n) :
                Cardinality(TrailAt("item", n)) = trail[r].row
    /\ \A i \in DOMAIN rowlog :
        LET n == rowlog[i].dir IN
        /\ TrailOf("item", n, i) # {}
        /\ rowlog[i].stage = "localMove" =>
                TrailOf("localCheck", n, i) # {} /\ TrailOf("table", n, i) = {}
        /\ rowlog[i].stage = "cloudMove" =>
                TrailOf("cloudCheck", n, i) # {} /\ TrailOf("table", n, i) = {}
        /\ rowlog[i].stage = "blocked" =>
                MoveChecks(n, i) = {} /\ TrailOf("table", n, i) = {}
        /\ rowlog[i].stage \notin {"blocked", "localMove", "cloudMove"} =>
                TrailOf("table", n, i) # {}

\* a visit has taken a completed scan, has given a second row to syncItem
\* after syncItem returned false for the first, has checked a row for a
\* move before its step of the table, and has descended into a folder
C28_Witness ==
    \E n \in Entered :
        /\ TrailAt("consume", n) # {}
        /\ TrailAt("descend", n) # {}
        /\ \E i, j \in TrailAt("item", n) :
                i < j /\ ~rowlog[trail[i].row].ret
        /\ \E t \in TrailAt("table", n) : MoveChecks(n, trail[t].row) # {}

(***************************************************************************)
(* Claims about the scan gate.                                             *)
(***************************************************************************)
\* the request outstanding when the visit began is for the visit's
\* directory and complete
RequestDone(v) ==
    /\ v.request0.active /\ v.request0.target = v.dir
    /\ v.request0.completed

\* C29: in a visit of a directory whose scanAgain is TREE_ACTION_HERE or
\* above, (a) if the visit asks for a scan, or a request is outstanding
\* that is not complete or not for this directory, no row is given to
\* syncItem; (b) if the outstanding request is for this directory and
\* complete, its results become lastFolderScan, lastScanTime is the time of
\* the visit, the request slot is empty, scanAgain is TREE_RESOLVED and
\* syncAgain at least TREE_ACTION_HERE when the gate is left, and the visit
\* applies the sync actions.
C29_ScanGate ==
    \A v \in FullVisits : v.scanAgain0 >= TREE_ACTION_HERE =>
        /\ (v.requested \/ (v.request0.active /\ ~RequestDone(v)))
                => TrailAt("item", v.dir) = {}
        /\ RequestDone(v) =>
                /\ v.consumed
                /\ v.gated.hasFolderScan
                /\ v.gated.lastFolderScan = v.request0.results
                /\ v.gated.lastScanTime = v.now
                /\ ~v.gated.request.active
                /\ v.gated.scanAgain = TREE_RESOLVED
                /\ v.gated.syncAgain >= TREE_ACTION_HERE
                /\ TrailAt("rows", v.dir) # {}

\* the places in the trail where a scan was asked for or taken
GateSteps ==
    {p \in DOMAIN trail : trail[p].ev \in {"request", "consume"}}

\* the gate step before place p, 0 if there is none
GateStepBefore(p) ==
    LET before == {q \in GateSteps : q < p}
    IN  IF before = {} THEN 0
        ELSE CHOOSE q \in before : \A r \in before : r <= q

\* the request slot when the last pass began: the root's visit is logged
\* last
SlotAtStart == visitlog[Len(visitlog)].request0

\* C30: a Sync has at most one scan request outstanding.  recursiveSync asks
\* for a scan only when the request slot is empty; the slot is emptied only
\* by the visit of the directory the request is for, once the request is
\* complete; between two passes the slot changes only by the request
\* becoming complete; and after a pass the slot holds the request the pass
\* made last, if it made one after it last took one.
C30_OneScanRequest ==
    /\ [](/\ \A p \in GateSteps :
                LET q == GateStepBefore(p) IN
                IF trail[p].ev = "request"
                THEN IF q = 0 THEN ~SlotAtStart.active
                     ELSE trail[q].ev = "consume"
                ELSE /\ q = 0
                     /\ SlotAtStart.active /\ SlotAtStart.completed
                     /\ SlotAtStart.target = trail[p].dir
          /\ GateSteps # {} =>
                LET last == GateStepBefore(Len(trail) + 1) IN
                IF trail[last].ev = "request"
                THEN mScanRequest.active
                        /\ mScanRequest.target = trail[last].dir
                ELSE ~mScanRequest.active
          /\ (trail # <<>> /\ GateSteps = {}) => mScanRequest = SlotAtStart)
    /\ [][(mScanRequest' # mScanRequest /\ trail' = <<>>)
            => /\ mScanRequest.active /\ ~mScanRequest.completed
               /\ mScanRequest'.active /\ mScanRequest'.completed
               /\ mScanRequest'.target = mScanRequest.target
               /\ mScanRequest'.path = mScanRequest.path]_vars

\* a directory that is to be scanned was visited while the request for
\* another directory was outstanding, and a pass has taken the scan of one
\* directory and asked for the scan of another
C30_Witness ==
    /\ \E v \in FullVisits :
            /\ v.scanAgain0 >= TREE_ACTION_HERE
            /\ v.request0.active /\ v.request0.target # v.dir
    /\ \E p, q \in GateSteps :
            /\ p < q /\ trail[p].ev = "consume" /\ trail[q].ev = "request"
            /\ trail[p].dir # trail[q].dir

(***************************************************************************)
(* Claims about the worker's queue.                                        *)
(***************************************************************************)
\* the requests that were queued, in the order of their queueing: a request
\* for the debris is never queued
QueuedRequests ==
    SelectSeq([r \in DOMAIN mWorker.requests |-> r],
              LAMBDA r : ~isContainingPathOf(localdebris,
                                             mWorker.requests[r].req.path))

\* the requests the threads have taken, then those that wait in mPending
TakenThenPending ==
    mWorker.taken \o SelectSeq(mWorker.mPending, LAMBDA r : r # 0)

\* C31: the requests queued before the sentinel are taken from mPending in
\* the order they were queued, each once and by one thread, none is lost,
\* and with every thread going on each of them becomes complete.
C31_QueueIsFifo ==
    /\ [](/\ TakenThenPending = QueuedRequests
          /\ \A t, u \in DOMAIN mWorker.mThreads :
                (t # u /\ mWorker.mThreads[t].request # 0)
                    => mWorker.mThreads[t].request # mWorker.mThreads[u].request
          /\ \A t \in DOMAIN mWorker.mThreads :
                mWorker.mThreads[t].request # 0
                    => mWorker.mThreads[t].request \in Range(mWorker.taken)
          /\ \A r \in Range(QueuedRequests) :
                mWorker.requests[r].req.completed => r \in Range(mWorker.taken))
    /\ \A r \in 1..MaxRequests :
            (r \in Range(mWorker.mPending))
                ~> (/\ r \in DOMAIN mWorker.requests
                    /\ mWorker.requests[r].req.completed)

\* two requests were queued before either was taken, and both are complete
C31_Witness ==
    /\ mWorker.taken = <<1, 2>>
    /\ \A r \in {1, 2} : mWorker.requests[r].req.completed
    /\ Len(mWorker.mThreads) = 2

(***************************************************************************)
(* Claims about the scan services' shared worker.                          *)
(***************************************************************************)
\* the threads whose service is made and whose destructor has not begun
ServicesAlive ==
    {t \in ServiceThreads : scanServices.threads[t].pc = "alive"}

\* C32: from the return of a service's constructor to the start of its
\* destructor the shared worker is there, and the worker is destroyed only
\* when no service is left.
C32_WorkerWhileServices ==
    /\ [](ServicesAlive # {} => scanServices.mWorker)
    /\ [][(scanServices.mWorker /\ ~scanServices'.mWorker)
            => ServicesAlive = {}]_vars

(***************************************************************************)
(* Claims about the rows of a name clash.                                  *)
(***************************************************************************)
\* the cloud children whose name the volume takes for the name of row i
CloudTieRun(i) ==
    {h \in DOMAIN tripIn.cn :
        fsCompare(tripIn.cn[h].name,
                  RowName(tripOut.rows[i], tripIn.ln, tripOut.fsNodes),
                  tripIn.ci) = 0}

\* the entries of the directory listing that are named as the entry at k
FsTieRun(k) ==
    {j \in DOMAIN tripOut.fsNodes :
        compare(tripOut.fsNodes[j].name, tripOut.fsNodes[k].name) = 0}

\* the rows computeSyncTriplets returned with clashing cloud names
CloudClashRows ==
    {i \in DOMAIN tripOut.rows : tripOut.rows[i].cloudClashingNames # <<>>}

\* the rows computeSyncTriplets returned with clashing filesystem names
FsClashRows ==
    {i \in DOMAIN tripOut.rows : tripOut.rows[i].fsClashingNames # <<>>}

\* C33: a row of a name clash lists every entry of the tie-run as a
\* clashing name; its cloudNode (fsNode) is set exactly when one entry of
\* the run has the handle (fsid) recorded on the row's syncNode, and is that
\* entry; where the row has no syncNode it is left unset, and the
\* computation completes without a read through a null pointer.
C33_ClashRows ==
    tripOut.called =>
        /\ ~tripOut.ub
        /\ \A i \in CloudClashRows :
            LET row == tripOut.rows[i]
                owned == IF row.syncNode = 0 THEN {}
                         ELSE {h \in Range(row.cloudClashingNames) :
                                 h = tripIn.ln[row.syncNode].syncedCloudNodeHandle}
            IN  /\ Range(row.cloudClashingNames) = CloudTieRun(i)
                /\ Len(row.cloudClashingNames) = Cardinality(CloudTieRun(i))
                /\ (row.cloudNode # 0) = (Cardinality(owned) = 1)
                /\ row.cloudNode # 0 => row.cloudNode \in owned
        /\ \A i \in FsClashRows :
            LET row == tripOut.rows[i]
                owned == IF row.syncNode = 0 THEN {}
                         ELSE {k \in Range(row.fsClashingNames) :
                                 tripOut.fsNodes[k].fsid =
                                     tripIn.ln[row.syncNode].fsid}
            IN  /\ Range(row.fsClashingNames) = FsTieRun(row.fsClashingNames[1])
                /\ (row.fsNode # 0) = (Cardinality(owned) = 1)
                /\ row.fsNode # 0 => row.fsNode \in owned

(***************************************************************************)
(* Claims about the first step of the local move check.                    *)
(***************************************************************************)
\* the rows of the last pass that reached checkLocalPathForMovesRenames
\* with an fsNode that is a symlink or is not of the syncNode's type
MismatchedRows ==
    {i \in DOMAIN rowlog :
        /\ rowlog[i].stage # "blocked"
        /\ rowlog[i].fsNode # 0
        /\ \/ rowlog[i].syncNode = 0
           \/ /\ rowlog[i].s.fsid # UNDEF
              /\ rowlog[i].s.fsid # rowlog[i].f.fsid
        /\ \/ rowlog[i].f.isSymlink
           \/ /\ rowlog[i].syncNode # 0
              /\ rowlog[i].s.type # TYPE_UNKNOWN
              /\ rowlog[i].s.type # rowlog[i].f.type}

\* C34: where the fsNode is a symlink, or its type differs from the
\* syncNode's, the local move check marks the node useBlocked and ends the
\* row as not synced with no command sent; so it is for a row with a
\* syncNode and for a row with none, whose check completes as well.
C34_SymlinkOrTypeBlocks ==
    \A i \in MismatchedRows :
        /\ rowlog[i].stage = "localMove"
        /\ ~rowlog[i].ret
        /\ WritesOfRow(i) = {}
        /\ rowlog[i].syncNode # 0
              => rowlog[i].after.useBlocked >= TREE_ACTION_HERE
        /\ rowlog[i].syncNode = 0 => ~ub

(***************************************************************************)
(* Claims about the cloud side's move check.                               *)
(***************************************************************************)
\* the rows of the last pass that the cloud side's move check took over
\* for a move: the cloud node was synced with another LocalNode
CloudMoveRows ==
    {i \in DOMAIN rowlog :
        /\ rowlog[i].stage = "cloudMove"
        /\ rowlog[i].source # 0
        /\ rowlog[i].syncNode # 0 => rowlog[i].s.type = rowlog[i].c.type}

\* the local renames of the last pass made for its row i
RenamesOfRow(i) ==
    {j \in DOMAIN acts : acts[j].row = i /\ acts[j].op = "renamelocal"}

\* C35: a cloud-side move makes one local rename; where it succeeds,
\* actionedMovesRenames is raised and the source's parent and the target
\* directory are flagged for a scan, the sync root as a target included;
\* where it meets a transient error the row's node is marked useBlocked,
\* and a row with no syncNode is handled as well; either way the row is not
\* synced.
C35_CloudMove ==
    \A i \in CloudMoveRows :
        /\ ~rowlog[i].ret
        /\ Cardinality(RenamesOfRow(i)) <= 1
        /\ RenamesOfRow(i) # {} =>
              /\ rowlog[i].moved
              /\ lnodes[rowlog[i].source].parent # 0
                    => lnodes[rowlog[i].source].parent \in rowlog[i].toScan
              /\ rowlog[i].dir \in rowlog[i].toScan
        /\ RenamesOfRow(i) = {} =>
              /\ rowlog[i].syncNode # 0
                    => rowlog[i].after.useBlocked >= TREE_ACTION_HERE
              /\ rowlog[i].syncNode = 0 => ~ub

(***************************************************************************)
(* Claims about an fsid that is met again.                                 *)
(***************************************************************************)
\* the rows of the last pass whose local move check ran
LocallyChecked ==
    {i \in DOMAIN rowlog :
        \E k \in DOMAIN trail : trail[k].ev = "localCheck" /\ trail[k].row = i}

\* the rows of the last pass whose file fsNode has the fsid of a LocalNode
\* of another mtime or size, and that the local move check did not block
ReusedFsidRows ==
    {i \in LocallyChecked :
        /\ rowlog[i].reused.nodes # {}
        /\ ~rowlog[i].f.isSymlink
        /\ rowlog[i].syncNode # 0 => rowlog[i].s.type = FILENODE}

\* C36: where a file fsNode's fsid is indexed to a LocalNode of another
\* mtime or size, the row is not taken for a move, the fsNode's fsid is
\* UNDEF when the table's step runs, and the fsid is not recorded on the
\* row's LocalNode.
C36_FsidReuse ==
    \A i \in ReusedFsidRows :
        /\ rowlog[i].stage # "localMove"
        /\ \A j \in DOMAIN acts :
              acts[j].row = i => acts[j].op \notin {"setattr", "rename"}
        /\ rowlog[i].f.fsid = UNDEF
        /\ rowlog[i].after.fsid # rowlog[i].reused.fsid

(***************************************************************************)
(* Claims about resolve_upsync.                                            *)
(***************************************************************************)
\* the rows of the last pass whose step was resolve_upsync
UpsyncRows == {i \in DOMAIN rowlog : rowlog[i].stage = "upsync"}

\* the uploads and folder creations of the last pass made for its row i
PutsOfRow(i) ==
    {j \in DOMAIN acts :
        acts[j].row = i /\ acts[j].op \in {"startxfer_put", "putnodes"}}

\* C37: resolve_upsync starts the upload of a file only when the LocalNode
\* has no transfer and the parent's cloud node exists, and puts a folder's
\* node only when the parent's cloud node exists; otherwise nothing is
\* sent; the row is not synced.
C37_UpsyncNeedsParent ==
    \A i \in UpsyncRows :
        /\ ~rowlog[i].ret
        /\ Cardinality(PutsOfRow(i)) <= 1
        /\ \A j \in PutsOfRow(i) :
              /\ rowlog[i].dirCloud # 0
              /\ acts[j].op = "startxfer_put"
                    <=> rowlog[i].f.type = FILENODE
              /\ acts[j].op = "startxfer_put" => ~rowlog[i].s.transfer
        /\ rowlog[i].dirCloud = 0 => ~ub

(***************************************************************************)
(* Claims about the back-off of blocked rows.                              *)
(***************************************************************************)
\* the LocalNode l is blocked and the flag's timer has not elapsed
WaitsOnTimer(l) ==
    \/ l.useBlocked >= TREE_ACTION_HERE /\ l.useBlockedTimer # "armed"
    \/ l.scanBlocked >= TREE_ACTION_HERE /\ l.scanBlockedTimer # "armed"

\* the rows of the last pass whose syncNode waited on a back-off timer
WaitingRows ==
    {i \in DOMAIN rowlog : rowlog[i].syncNode # 0 /\ WaitsOnTimer(rowlog[i].s0)}

\* the rows of the last pass whose syncNode was blocked with every timer
\* elapsed
ElapsedRows ==
    {i \in DOMAIN rowlog :
        /\ rowlog[i].syncNode # 0
        /\ ~WaitsOnTimer(rowlog[i].s0)
        /\ \/ rowlog[i].s0.useBlocked >= TREE_ACTION_HERE
           \/ rowlog[i].s0.scanBlocked >= TREE_ACTION_HERE}

\* a blocked flag of LocalNode l has its timer
TimersExist(l) ==
    /\ l.useBlocked >= TREE_ACTION_HERE => l.useBlockedTimer # "none"
    /\ l.scanBlocked >= TREE_ACTION_HERE => l.scanBlockedTimer # "none"

\* C38: a row whose syncNode is use-blocked or scan-blocked is skipped, with
\* nothing done and no flag changed, until the flag's timer has elapsed;
\* then the flag is reset and the timer released before the row is looked at
\* again, so that a flag found afterwards was raised anew with a new timer,
\* and for scanBlocked the parent is flagged for a scan; a blocked flag has
\* its timer in every state that syncItem leaves.
C38_BlockedBackOff ==
    /\ \A i \in WaitingRows :
          /\ rowlog[i].stage = "blocked"
          /\ ~rowlog[i].ret
          /\ rowlog[i].same
          /\ rowlog[i].after = rowlog[i].s
    /\ \A i \in ElapsedRows :
          /\ rowlog[i].after.useBlockedTimer # "armed"
          /\ rowlog[i].after.scanBlockedTimer # "armed"
          /\ rowlog[i].after.useBlocked < TREE_ACTION_HERE
                => /\ rowlog[i].after.useBlocked = TREE_RESOLVED
                   /\ rowlog[i].after.useBlockedTimer = "none"
          /\ rowlog[i].after.scanBlocked < TREE_ACTION_HERE
                => /\ rowlog[i].after.scanBlocked = TREE_RESOLVED
                   /\ rowlog[i].after.scanBlockedTimer = "none"
          /\ rowlog[i].s0.scanBlocked >= TREE_ACTION_HERE
                => rowlog[i].dirScanAgain >= TREE_ACTION_HERE
    /\ \A i \in DOMAIN rowlog :
          /\ TimersExist(rowlog[i].s0)
          /\ TimersExist(rowlog[i].s)
          /\ TimersExist(rowlog[i].after)
    /\ \A n \in NodeIds : TimersExist(lnodes[n])

\* a pass met a scan-blocked row whose timer had elapsed: the flag was reset,
\* raised again with a new timer, and the parent is to be scanned
C38_Witness ==
    \E i \in ElapsedRows :
        /\ rowlog[i].s0.scanBlocked >= TREE_ACTION_HERE
        /\ rowlog[i].s0.scanBlockedTimer = "armed"
        /\ rowlog[i].after.scanBlockedTimer = "counting"
        /\ rowlog[i].dirScanAgain >= TREE_ACTION_HERE

(***************************************************************************)
(* C39: the pre-pass of recursiveSync.                                     *)
(***************************************************************************)
\* the calls of recursiveSync that returned at once, and those that went on
SkippedVisits == {i \in DOMAIN visitlog : visitlog[i].early}
EnteredVisits == {i \in DOMAIN visitlog : ~visitlog[i].early}

\* the children of the directory of call i that are not files
FolderKids(i) ==
    {c \in Children(visitlog[i].ln0, visitlog[i].dir) :
        visitlog[i].ln0[c].type # FILENODE}
FileKids(i) ==
    {c \in Children(visitlog[i].ln0, visitlog[i].dir) :
        visitlog[i].ln0[c].type = FILENODE}

\* C39: a call of recursiveSync whose directory requires neither a scan nor
\* a sync returns true and leaves every LocalNode and the scan request as it
\* met them; every other call hands the directory's scanAgain and syncAgain
\* to each child that is not a file (a subtree flag replaces the child's
\* flag, any other flag leaves it) and leaves the file children as they were
C39_PrePass ==
    /\ \A i \in DOMAIN visitlog :
          visitlog[i].early <=>
              /\ visitlog[i].ln0[visitlog[i].dir].scanAgain = TREE_RESOLVED
              /\ visitlog[i].ln0[visitlog[i].dir].syncAgain = TREE_RESOLVED
    /\ \A i \in SkippedVisits :
          /\ visitlog[i].ret
          /\ visitlog[i].ln = visitlog[i].ln0
          /\ visitlog[i].gated.request = visitlog[i].request0
          /\ ~visitlog[i].requested /\ ~visitlog[i].consumed
    /\ \A i \in EnteredVisits :
          LET v == visitlog[i]
              d == v.ln0[v.dir]
          IN  /\ \A c \in FolderKids(i) :
                    /\ v.pushed[c].scanAgain =
                           IF d.scanAgain = TREE_ACTION_SUBTREE
                           THEN TREE_ACTION_SUBTREE ELSE v.ln0[c].scanAgain
                    /\ v.pushed[c].syncAgain =
                           IF d.syncAgain = TREE_ACTION_SUBTREE
                           THEN TREE_ACTION_SUBTREE ELSE v.ln0[c].syncAgain
              /\ \A c \in FileKids(i) : v.pushed[c] = v.ln0[c]

\* a call that handed a subtree flag to a child folder whose own flag was
\* lower, past a file child
C39_Witness ==
    \E i \in EnteredVisits :
          /\ FileKids(i) # {}
          /\ \E c \in FolderKids(i) :
                \/ /\ visitlog[i].ln0[visitlog[i].dir].scanAgain = TREE_ACTION_SUBTREE
                   /\ visitlog[i].ln0[c].scanAgain < TREE_ACTION_SUBTREE
                   /\ visitlog[i].pushed[c].scanAgain = TREE_ACTION_SUBTREE
                \/ /\ visitlog[i].ln0[visitlog[i].dir].syncAgain = TREE_ACTION_SUBTREE
                   /\ visitlog[i].ln0[c].syncAgain < TREE_ACTION_SUBTREE
                   /\ visitlog[i].pushed[c].syncAgain = TREE_ACTION_SUBTREE

(***************************************************************************)
(* C40: the two cache queues never hold the same LocalNode.                *)
(***************************************************************************)
\* the LocalNodes queued for insertion whose row is queued for deletion
QueuedBoth ==
    {l \in insertq : /\ lnodes[l].live
                     /\ lnodes[l].dbid # 0
                     /\ lnodes[l].dbid \in deleteq}

\* C40: no LocalNode is at once in insertq and has its dbid in deleteq
C40_NotQueuedBoth == QueuedBoth = {}

\* both queues hold something while the sync is not canceled: a LocalNode
\* that has a row is queued for insertion and another row for deletion
C40_Witness ==
    /\ state # "SYNC_CANCELED"
    /\ deleteq # {}
    /\ \E l \in insertq : lnodes[l].live /\ lnodes[l].dbid # 0


=============================================================================
